---- MODULE Spec2Model ----
(***************************************************************************)
(* A model of pyGeo (src/pyGeo2.py): the edge connectivity of a set of     *)
(* B-spline patches, the global control-point index built from it, the     *)
(* propagation of knot vectors along driving groups, the registration of   *)
(* design variables, the reference axes and the update of the control      *)
(* points from them.                                                       *)
(*                                                                         *)
(* Python lists are sequences; a Python index k is the element k+1.        *)
(* Patches are numbered 0..nSurf-1 and edges 0..3 as in the source.        *)
(***************************************************************************)
EXTENDS Integers, Sequences, FiniteSets, TLC

\* ------------------------------------------------------------------ bounds
MaxSurf == 3
MaxJoin == 2
MaxJoinTopo == 3
MaxDV == 2
MaxSurfSmall == 2

\* The control-point grids (Nctlu, Nctlv) a patch of the general family has.
Shapes == {<<3, 3>>, <<4, 3>>}

\* The shapes of the knot studies: knot vectors of odd and of even length.
KnotShapes == {<<3, 3>>, <<4, 4>>}

\* The spline order of the patches' knot vectors: len(tu) = Nctlu + order.
SplineOrder == 2

\* Knot values are integers: KnotOne stands for the parameter value 1.
KnotOne == 6 + 6

\* A value of a Python name or attribute that was never assigned.
Unset == -1

VARIABLES
  nSurf,          \* self.nSurf
  shape,          \* shape[p] = <<surfs[p].Nctlu, surfs[p].Nctlv>>
  coin,           \* outcome of test_edge: <<isurf,i,jpatch,j>> -> dir_flag
  tu, tv,         \* surfs[p].tu, surfs[p].tv
  con,            \* self.con: None, or the list of edge objects
  global_coef,    \* self.global_coef
  globalCtlIndex, \* surfs[p].globalCtlIndex[i,j]
  Ncoef,          \* self.Ncoef
  coef_shapes,    \* self.coef_shapes
  slices,         \* self.slices, as <<start, end>>
  conFile,        \* the connectivity table on disk: None, or its rows
  DV_listGlobal, DV_namesGlobal, DV_listLocal, DV_namesLocal,
  ref_axis,       \* self.ref_axis: the list of ref_axis objects
  ref_axis_con,   \* self.ref_axis_con: the list of <<axis1, axis2, con_type>>
  coef,           \* self.coef: the global list of control points
  surf_coef,      \* surfs[p].coef[i,j]
  updated,        \* surfs[p].updated[i,j]
  kwargs,         \* the keyword arguments of the constructor call
  J1,             \* self.J1: NoMatrix (None), or the matrix calcCtlDeriv built
  perturbed,      \* the places in DV_listGlobal whose value carries the step h
  last            \* the last call made and how it ended

vars == <<nSurf, shape, coin, tu, tv, con, global_coef, globalCtlIndex, Ncoef,
          coef_shapes, slices, conFile,
          DV_listGlobal, DV_namesGlobal, DV_listLocal, DV_namesLocal,
          ref_axis, ref_axis_con, coef, surf_coef, updated, kwargs, J1, perturbed, last>>

geomVars == <<nSurf, shape, coin>>
indexVars == <<global_coef, globalCtlIndex, Ncoef, coef_shapes, slices>>
dvVars == <<DV_listGlobal, DV_namesGlobal, DV_listLocal, DV_namesLocal>>
axisVars == <<ref_axis, ref_axis_con>>
surfVars == <<surf_coef, updated>>

\* Python's None as the value of self.J1: a matrix of no shape.
NoMatrix == [nrow |-> Unset, ncol |-> Unset, cols |-> << >>]

\* Python's None as the value of self.con and of the table on disk: a value
\* no list of edge objects and no table equals.
None == <<[type |-> -1, f1 |-> -1, e1 |-> -1, dg |-> -1, Nctl |-> -1,
           dof |-> -1, cont |-> -1, dir |-> -1, f2 |-> -1, e2 |-> -1]>>

\* ----------------------------------------------------------- list helpers
At(s, k) == s[k + 1]

Last(s) == s[Len(s)]

SetLast(s, v) == [s EXCEPT ![Len(s)] = v]

\* list.index(x): the Python index of the first occurrence of x (x occurs).
IndexOf(s, x) ==
  LET hits == {k \in 1..Len(s) : s[k] = x}
  IN  (CHOOSE k \in hits : \A m \in hits : k <= m) - 1

InList(s, x) == \E k \in 1..Len(s) : s[k] = x

Patches == 0..(nSurf - 1)

Edges == 0..3

\* --------------------------------------------------------------- geometry
\* Number of control points along edge e of a patch of shape sh: edges 0 and
\* 1 run along u, edges 2 and 3 along v.
EdgeLen(sh, e) == IF e \in {0, 1} THEN sh[1] ELSE sh[2]

\* geo_utils.flipEdge: the opposite edge of the same face.
flipEdge(e) == CASE e = 0 -> 1 [] e = 1 -> 0 [] e = 2 -> 3 [] OTHER -> 2

\* geo_utils.test_edge as seen by calcEdgeConnectivity: (coinc, dir_flag).
test_edge(isurf, jpatch, i, j) ==
  IF <<isurf, i, jpatch, j>> \in DOMAIN coin
    THEN <<TRUE, coin[<<isurf, i, jpatch, j>>]>>
    ELSE <<FALSE, 1>>

\* ------------------------------------------------- calcEdgeConnectivity
\* Lines 658-662: the place of the test of edge i of isurf against edge j of
\* jpatch in the order of the four nested loops.
LoopRank(k) == ((k[1] * nSurf + k[3]) * 4 + k[2]) * 4 + k[4]

\* Lines 654-674: one record per coincident pair, appended in loop order.
\* K is the set of pairs <<isurf, i, jpatch, j>> still to come.
RECURSIVE e_conFrom(_)
e_conFrom(K) ==
  IF K = {} THEN << >>
  ELSE LET k == CHOOSE x \in K : \A y \in K : LoopRank(x) <= LoopRank(y)
           dir_flag == test_edge(k[1], k[3], k[2], k[4])[2]
       IN  << <<<<k[1], k[2]>>, <<k[3], k[4]>>, 0, dir_flag, -1>> >>
             \o e_conFrom(K \ {k})

e_con ==
  e_conFrom({k \in DOMAIN coin :
               /\ k[1] \in Patches /\ k[3] \in Patches /\ k[1] < k[3]
               /\ test_edge(k[1], k[3], k[2], k[4])[1]})

\* Lines 682-685.
RECURSIVE joinedEdgeList(_, _)
joinedEdgeList(ec, k) ==
  IF k > Len(ec) THEN << >>
  ELSE <<ec[k][1], ec[k][2]>> \o joinedEdgeList(ec, k + 1)

\* Lines 687-696: returns <<mirrored_edges, edge_list>>.
RECURSIVE mirrorFrom(_, _, _)
mirrorFrom(n, mirrored_edges, edge_list) ==
  IF n >= nSurf * 4 THEN <<mirrored_edges, edge_list>>
  ELSE LET fe == <<n \div 4, n % 4>>
       IN  IF ~InList(edge_list, fe)
             THEN mirrorFrom(n + 1, Append(mirrored_edges, <<fe, -1>>),
                             Append(edge_list, fe))
             ELSE mirrorFrom(n + 1, mirrored_edges, edge_list)

\* _getConIndex (lines 1210-1217).
getConIndex(edge_list, fe, nJoined, nMirrored) ==
  LET i == IndexOf(edge_list, fe)
  IN  IF i < nJoined
        THEN <<i \div 2, i % 2>>
        ELSE <<(nJoined \div 2) + i - nJoined, 0>>

\* A walk that does not stop at a record that already has a driving group:
\* the variant the termination of the assignment is measured against.
RECURSIVE walkPastAssigned(_, _, _, _, _, _, _)
walkPastAssigned(edges, edge_list, nJoined, nMirror, dg_counter, st, fuel) ==
  IF fuel = 0 THEN <<edges, FALSE>>
  ELSE
    LET cur_face == At(At(edges, st[1]), st[2])[1]
        cur_edge == flipEdge(At(At(edges, st[1]), st[2])[2])
        r == getConIndex(edge_list, <<cur_face, cur_edge>>, nJoined, nMirror)
        new_index == r[1]
        order == IF r[2] = 0 THEN 1 ELSE 0
        e2 == [edges EXCEPT ![new_index + 1] = SetLast(@, dg_counter)]
    IN  IF Len(At(e2, new_index)) = 2 THEN <<e2, TRUE>>
        ELSE walkPastAssigned(e2, edge_list, nJoined, nMirror, dg_counter,
                              <<new_index, order>>, fuel - 1)

\* The 'while cont2' loops of lines 743-777 and 791-816.  The state is the
\* list edges, the record index and the member 'order' of it the walk leaves
\* through.  fuel bounds the iterations: a walk that uses it up has not
\* ended, which the result reports as the second component.
RECURSIVE walk(_, _, _, _, _, _, _)
walk(edges, edge_list, nJoined, nMirror, dg_counter, st, fuel) ==
  IF fuel = 0 THEN <<edges, FALSE>>
  ELSE
    LET cur_face == At(At(edges, st[1]), st[2])[1]
        cur_edge == flipEdge(At(At(edges, st[1]), st[2])[2])
        r == getConIndex(edge_list, <<cur_face, cur_edge>>, nJoined, nMirror)
        new_index == r[1]
        order == IF r[2] = 0 THEN 1 ELSE 0
    IN  IF Last(At(edges, new_index)) # -1 THEN <<edges, TRUE>>
        ELSE LET e2 == [edges EXCEPT ![new_index + 1] = SetLast(@, dg_counter)]
             IN  IF Len(At(e2, new_index)) = 2 THEN <<e2, TRUE>>
                 ELSE walk(e2, edge_list, nJoined, nMirror, dg_counter,
                           <<new_index, order>>, fuel - 1)

\* More iterations than any ending walk takes: each one assigns a record.
WalkFuel(edges) == Len(edges) + 1

\* One iteration of 'for i in xrange(len(edges))' (lines 709-818).
\* s = [edges, dg_counter, ended].
dgStep(s, i, edge_list, nJoined, nMirror) ==
  IF Last(At(s.edges, i)) # -1 THEN s
  ELSE
    LET dgc == s.dg_counter + 1
        e1 == [s.edges EXCEPT ![i + 1] = SetLast(@, dgc)]
        flip_edge == flipEdge(At(e1, i)[1][2])
        flip_index == getConIndex(edge_list, <<At(e1, i)[1][1], flip_edge>>,
                                  nJoined, nMirror)[1]
        e2 == [e1 EXCEPT ![flip_index + 1] = SetLast(@, dgc)]
        w1 == IF Len(At(e2, i)) = 2 THEN <<e2, TRUE>>
              ELSE walk(e2, edge_list, nJoined, nMirror, dgc, <<i, 1>>, WalkFuel(e2))
        w2 == IF Len(At(w1[1], flip_index)) = 2 THEN w1
              ELSE walk(w1[1], edge_list, nJoined, nMirror, dgc, <<flip_index, 1>>,
                        WalkFuel(e2))
    IN  [edges |-> w2[1], dg_counter |-> dgc, ended |-> s.ended /\ w1[2] /\ w2[2]]

RECURSIVE dgLoop(_, _, _, _, _)
dgLoop(s, i, edge_list, nJoined, nMirror) ==
  IF i >= Len(s.edges) \/ ~s.ended THEN s
  ELSE dgLoop(dgStep(s, i, edge_list, nJoined, nMirror), i + 1, edge_list,
              nJoined, nMirror)

\* Lines 654-818: the list edges with its driving groups, and whether every
\* propagation walk ended.
drivingGroups ==
  LET ec == e_con
      m == mirrorFrom(0, << >>, joinedEdgeList(ec, 1))
      nJoined == Len(ec) * 2
      nMirror == Len(m[1])
  IN  dgLoop([edges |-> ec \o m[1], dg_counter |-> -1, ended |-> TRUE], 0,
             m[2], nJoined, nMirror)

\* -------------------------------------------------------- the edge class
\* edge.__init__ (lines 2294-2332) on the fields aux[0..10] of a table row.
edge(aux) ==
  IF At(aux, 3) = 0
    THEN [type |-> At(aux, 3), f1 |-> At(aux, 1), e1 |-> At(aux, 2),
          dg |-> At(aux, 7), Nctl |-> At(aux, 8),
          dof |-> At(aux, 4), cont |-> -1, dir |-> 1, f2 |-> -1, e2 |-> -1]
    ELSE [type |-> At(aux, 3), f1 |-> At(aux, 1), e1 |-> At(aux, 2),
          dg |-> At(aux, 7), Nctl |-> At(aux, 8),
          dof |-> 7, cont |-> At(aux, 5), dir |-> At(aux, 6),
          f2 |-> At(aux, 9), e2 |-> At(aux, 10)]

\* A row that carries the direction in the column of the continuity and the
\* continuity in the column of the direction.
write_infoDirFirst(ed, i) ==
  <<i, ed.f1, ed.e1, ed.type, ed.dof, ed.dir, ed.cont, ed.dg, ed.Nctl, ed.f2, ed.e2>>

\* edge.write_info (lines 2334-2341): the row written for record i.
write_info(ed, i) ==
  <<i, ed.f1, ed.e1, ed.type, ed.dof, ed.cont, ed.dir, ed.dg, ed.Nctl, ed.f2, ed.e2>>

\* Lines 821-838: the init string of record i of the list edges.
init_string(edges, i, nJoined) ==
  LET r == At(edges, i)
  IN  IF i < nJoined \div 2
        THEN <<i, r[1][1], r[1][2], 1, 7, r[3], r[4], r[5], 10, r[2][1], r[2][2]>>
        ELSE <<i, r[1][1], r[1][2], 0, 3, -1, 1, r[2], 10, -1, -1>>

conOf(edges, nJoined) ==
  [k \in 1..Len(edges) |-> edge(init_string(edges, k - 1, nJoined))]

\* ------------------------------------------------- _setEdgeConnectivity
\* A lookup that answers with the first record where the edge is in none.
findConIndexLenient(c, isurf, e) ==
  LET hits == {k \in 1..Len(c) : \/ (c[k].f1 = isurf /\ c[k].e1 = e)
                                 \/ (c[k].f2 = isurf /\ c[k].e2 = e)}
  IN  IF hits = {} THEN <<0, TRUE>>
      ELSE LET k == CHOOSE k \in hits : \A m \in hits : k <= m
           IN  <<k - 1, c[k].f1 = isurf /\ c[k].e1 = e>>

\* _findConIndex (lines 849-862): <<index, master>>, or <<-1, FALSE>> where
\* the source exits because the edge is in no record.
findConIndex(c, isurf, e) ==
  LET hits == {k \in 1..Len(c) : \/ (c[k].f1 = isurf /\ c[k].e1 = e)
                                 \/ (c[k].f2 = isurf /\ c[k].e2 = e)}
  IN  IF hits = {} THEN <<-1, FALSE>>
      ELSE LET k == CHOOSE k \in hits : \A m \in hits : k <= m
           IN  <<k - 1, c[k].f1 = isurf /\ c[k].e1 = e>>

\* The cell of a patch of shape sh at position index along edge e, read in
\* direction dir.
EdgeCell(sh, e, index, dir) ==
  LET t == IF dir = 1 THEN index ELSE EdgeLen(sh, e) - 1 - index
  IN  CASE e = 0 -> <<t, 0>>
        [] e = 1 -> <<t, sh[2] - 1>>
        [] e = 2 -> <<0, t>>
        [] OTHER -> <<sh[1] - 1, t>>

Cells(sh) == (0..(sh[1] - 1)) \X (0..(sh[2] - 1))

\* surf.getGlobalIndexEdge(edge, index, dir) of patch patchID.
getGlobalIndexEdge(gci, patchID, e, index, dir) ==
  gci[patchID][EdgeCell(shape[patchID], e, index, dir)]

\* Whether position index of edge e is on the grid of patch patchID.
OnGrid(patchID, e, index, dir) ==
  EdgeCell(shape[patchID], e, index, dir) \in Cells(shape[patchID])

\* list[k] of a Python list of length n: the place k names, negative k
\* counted from the end; -1 where Python raises IndexError.
PyIndex(k, n) ==
  IF k \in 0..(n - 1) THEN k
  ELSE IF k \in (0 - n)..(0 - 1) THEN n + k
  ELSE 0 - 1

\* A new master control point (e.g. lines 904-908).
newMaster(s, isurf, i, j) ==
  [s EXCEPT !.counter = @ + 1,
            !.global_coef = Append(@, << <<isurf, i, j>> >>),
            !.gci[isurf][<<i, j>>] = s.counter,
            !.master = @ \cup {<<i, j>>}]

\* A slave control point that is given its master's index without being
\* entered in the master's global_coef list: the variant alias completeness
\* is measured against.
aliasNoAppend(s, isurf, i, j, icon, patchID, index) ==
  IF patchID = Unset THEN [s EXCEPT !.err = "UnboundLocalError"]
  ELSE IF ~OnGrid(patchID, At(s.con, icon).e1, index, At(s.con, icon).dir)
    THEN [s EXCEPT !.err = "IndexError"]
  ELSE
    LET g_index == getGlobalIndexEdge(s.gci, patchID, At(s.con, icon).e1, index,
                                      At(s.con, icon).dir)
    IN  IF PyIndex(g_index, Len(s.global_coef)) = -1
          THEN [s EXCEPT !.err = "IndexError"]
          ELSE [s EXCEPT !.gci[isurf][<<i, j>>] = g_index]

\* A slave control point (e.g. lines 910-916), aliased through record icon
\* read from the patch the name patchID holds.
aliasTo(s, isurf, i, j, icon, patchID, index) ==
  IF patchID = Unset THEN [s EXCEPT !.err = "UnboundLocalError"]
  ELSE IF ~OnGrid(patchID, At(s.con, icon).e1, index, At(s.con, icon).dir)
    THEN [s EXCEPT !.err = "IndexError"]
  ELSE
    LET g_index == getGlobalIndexEdge(s.gci, patchID, At(s.con, icon).e1, index,
                                      At(s.con, icon).dir)
        place == PyIndex(g_index, Len(s.global_coef))
    IN  IF place = -1
          THEN [s EXCEPT !.err = "IndexError"]
          ELSE [s EXCEPT !.global_coef[place + 1] = Append(@, <<isurf, i, j>>),
                         !.gci[isurf][<<i, j>>] = g_index]

\* The control points on one edge, not a corner (lines 901-975).
edgeCell(s, isurf, i, j, e, index) ==
  LET r == findConIndex(s.con, isurf, e)
  IN  IF r[1] = -1 THEN [s EXCEPT !.err = "exit"]
      ELSE IF r[2] THEN newMaster(s, isurf, i, j)
      ELSE LET pid == At(s.con, r[1]).f1
           IN  aliasTo([s EXCEPT !.patchID = pid], isurf, i, j, r[1], pid, index)

\* A corner that is always a new master control point: the variant the
\* two-patch count is measured against.
nodeAlwaysMaster(s, isurf, i, j, ea, eb, indexa, indexb, assigns1) ==
  newMaster(s, isurf, i, j)

\* A corner between edges ea and eb (lines 977-1107).  assigns1 is whether
\* the branch of the first edge assigns the name patchID before reading it.
nodeCell(s, isurf, i, j, ea, eb, indexa, indexb, assigns1) ==
  LET r1 == findConIndex(s.con, isurf, ea)
      r2 == findConIndex(s.con, isurf, eb)
  IN  IF r1[1] = -1 \/ r2[1] = -1 THEN [s EXCEPT !.err = "exit"]
      ELSE IF r1[2] /\ r2[2] THEN newMaster(s, isurf, i, j)
      ELSE IF ~r1[2]
        THEN IF assigns1
               THEN LET pid == At(s.con, r1[1]).f1
                    IN  aliasTo([s EXCEPT !.patchID = pid], isurf, i, j, r1[1], pid, indexa)
               ELSE aliasTo(s, isurf, i, j, r1[1], s.patchID, indexa)
        ELSE LET pid == At(s.con, r2[1]).f1
             IN  aliasTo([s EXCEPT !.patchID = pid], isurf, i, j, r2[1], pid, indexb)

\* Node 2 (lines 1058-1065) assigns 'patchiD' and reads 'patchID'.
Node2AssignsPatchID == FALSE

\* The body of the loops over i and j (lines 889-1108).
cellStep(s, isurf, i, j) ==
  LET Nctlu == shape[isurf][1]
      Nctlv == shape[isurf][2]
  IN  IF i > 0 /\ i < Nctlu - 1 /\ j > 0 /\ j < Nctlv - 1
        THEN newMaster(s, isurf, i, j)
      ELSE IF i > 0 /\ i < Nctlu - 1 /\ j = 0 THEN edgeCell(s, isurf, i, j, 0, i)
      ELSE IF i > 0 /\ i < Nctlu - 1 /\ j = Nctlv - 1 THEN edgeCell(s, isurf, i, j, 1, i)
      ELSE IF i = 0 /\ j > 0 /\ j < Nctlv - 1 THEN edgeCell(s, isurf, i, j, 2, j)
      ELSE IF i = Nctlu - 1 /\ j > 0 /\ j < Nctlv - 1 THEN edgeCell(s, isurf, i, j, 3, j)
      ELSE IF i = 0 /\ j = 0
        THEN nodeCell(s, isurf, i, j, 0, 2, 0, 0, TRUE)
      ELSE IF i = Nctlu - 1 /\ j = 0
        THEN nodeCell(s, isurf, i, j, 0, 3, Nctlu - 1, 0, TRUE)
      ELSE IF i = 0 /\ j = Nctlv - 1
        THEN nodeCell(s, isurf, i, j, 1, 2, 0, Nctlv - 1, Node2AssignsPatchID)
      ELSE IF i = Nctlu - 1 /\ j = Nctlv - 1
        THEN nodeCell(s, isurf, i, j, 1, 3, Nctlu - 1, Nctlv - 1, TRUE)
      ELSE s

\* A closing step that records the full shape of the patch as its free shape.
surfEndFullShape(s, isurf, surf_start_index) ==
  [s EXCEPT !.slices = Append(@, <<surf_start_index, s.counter>>),
            !.coef_shapes = Append(@, <<shape[isurf][1], shape[isurf][2]>>)]

\* Lines 1112-1139: the slice and the free shape of patch isurf.
surfEnd(s, isurf, surf_start_index) ==
  LET Nctlu == shape[isurf][1]
      Nctlv == shape[isurf][2]
      NoneIn(cs) == cs \cap s.master = {}
      Nctlu_free == Nctlu
                      - (IF NoneIn({0} \X (0..(Nctlv - 1))) THEN 1 ELSE 0)
                      - (IF NoneIn({Nctlu - 1} \X (0..(Nctlv - 1))) THEN 1 ELSE 0)
      Nctlv_free == Nctlv
                      - (IF NoneIn((0..(Nctlu - 1)) \X {0}) THEN 1 ELSE 0)
                      - (IF NoneIn((0..(Nctlu - 1)) \X {Nctlv - 1}) THEN 1 ELSE 0)
  IN  [s EXCEPT !.slices = Append(@, <<surf_start_index, s.counter>>),
                !.coef_shapes = Append(@, <<Nctlu_free, Nctlv_free>>)]

\* The loops over i and j of patch isurf; n counts the cells, j fastest.
RECURSIVE cellLoop(_, _, _)
cellLoop(s, isurf, n) ==
  IF s.err # "ok" \/ n >= shape[isurf][1] * shape[isurf][2] THEN s
  ELSE cellLoop(cellStep(s, isurf, n \div shape[isurf][2], n % shape[isurf][2]),
                isurf, n + 1)

RECURSIVE surfLoop(_, _)
surfLoop(s, isurf) ==
  IF s.err # "ok" \/ isurf >= nSurf THEN s
  ELSE LET t == cellLoop([s EXCEPT !.master = {}], isurf, 0)
       IN  surfLoop(IF t.err = "ok" THEN surfEnd(t, isurf, s.counter) ELSE t, isurf + 1)

\* _setEdgeConnectivity (lines 864-1152) with self.con = c: the state the
\* loops end in; err is "ok" when the function returns.
setEdgeConnectivityFrom(c, gci0) ==
  surfLoop([con |-> c, counter |-> 0, global_coef |-> << >>, gci |-> gci0,
            patchID |-> Unset, master |-> {}, err |-> "ok",
            slices |-> << >>, coef_shapes |-> << >>], 0)

setEdgeConnectivity(c) == setEdgeConnectivityFrom(c, globalCtlIndex)

\* The attributes _setEdgeConnectivity leaves on the object; Ncoef is set on
\* the last line only.
SetIndexState(s) ==
  /\ global_coef' = s.global_coef
  /\ coef' = IF s.err = "ok"
              THEN [ii \in 1..Len(s.global_coef) |->
                      surf_coef[s.global_coef[ii][1][1]]
                               [<<s.global_coef[ii][1][2], s.global_coef[ii][1][3]>>]]
              ELSE << >>
  /\ globalCtlIndex' = s.gci
  /\ coef_shapes' = s.coef_shapes
  /\ slices' = s.slices
  /\ Ncoef' = IF s.err = "ok" THEN s.counter ELSE Ncoef

\* ---------------------------------------------------------------- actions
\* What calcEdgeConnectivity computes once it goes ahead (lines 651-845):
\* whether the driving-group loops ended, the list self.con and the state
\* _setEdgeConnectivity leaves.  The set holds the one outcome.
calcOutcome ==
  UNION {IF ~d.ended
           THEN {[ended |-> FALSE, con |-> << >>, index |-> << >>]}
           ELSE UNION {{[ended |-> TRUE, con |-> c, index |-> s] :
                          s \in {setEdgeConnectivity(c)}} :
                       c \in {conOf(d.edges, Len(e_con) * 2)}} :
         d \in {drivingGroups}}

\* What the caller may type at the prompt.
Answers == {"0", "1", ""}

\* calcEdgeConnectivity (lines 638-847); ans is the line raw_input returns
\* when connectivity exists, run the outcome of going ahead.
calcEdgeConnectivity(ans, run) ==
  IF con # None /\ ans = "0"
    THEN /\ last' = [op |-> "calc", result |-> "quit", ans |-> ans]
         /\ UNCHANGED <<geomVars, axisVars, coef, surfVars, kwargs, J1, perturbed,
                        tu, tv, con, indexVars, conFile, dvVars>>
    ELSE IF ~run.ended
      THEN /\ last' = [op |-> "calc", result |-> "hang",
                       ans |-> IF con # None THEN ans ELSE ""]
           /\ UNCHANGED <<geomVars, axisVars, coef, surfVars, kwargs, J1, perturbed,
                          tu, tv, con, indexVars, conFile, dvVars>>
      ELSE /\ con' = run.con
           /\ SetIndexState(run.index)
           /\ last' = [op |-> "calc", result |-> run.index.err,
                       ans |-> IF con # None THEN ans ELSE ""]
           /\ UNCHANGED <<geomVars, axisVars, surfVars, kwargs, J1, perturbed,
                          tu, tv, conFile, dvVars>>

CalcEdgeConnectivity ==
  \E run \in calcOutcome : \E ans \in Answers : calcEdgeConnectivity(ans, run)

\* writeEdgeConnectivity (lines 1167-1179): the rows after the header line.
\* Without connectivity len(self.con) raises after the file was opened and
\* the header written.
WriteEdgeConnectivity ==
  /\ conFile' = IF con = None THEN << >>
                ELSE [k \in 1..Len(con) |-> write_info(con[k], k - 1)]
  /\ last' = [op |-> "write", result |-> IF con = None THEN "TypeError" ELSE "ok",
              ans |-> ""]
  /\ UNCHANGED <<geomVars, axisVars, coef, surfVars, kwargs, J1, perturbed,
                 tu, tv, con, indexVars, dvVars>>

\* The user edits the table on disk: the continuity column of a joined row
\* is set to 1 (the table is the only place continuity is chosen).
EditConFile ==
  /\ conFile # None
  /\ \E k \in 1..Len(conFile) :
       /\ At(conFile[k], 3) = 1
       /\ At(conFile[k], 5) = 0
       /\ conFile' = [conFile EXCEPT ![k][6] = 1]
  /\ last' = [op |-> "edit", result |-> "ok", ans |-> ""]
  /\ UNCHANGED <<geomVars, axisVars, coef, surfVars, kwargs, J1, perturbed,
                 tu, tv, con, indexVars, dvVars>>

\* The pairs (patch, edge) that appear in no record of the list c.
MissingEdges(c) ==
  {pe \in Patches \X Edges :
     \A k \in 1..Len(c) : /\ ~(c[k].f1 = pe[1] /\ c[k].e1 = pe[2])
                          /\ ~(c[k].f2 = pe[1] /\ c[k].e2 = pe[2])}

\* The table on disk loses a row: the file that is read back is incomplete.
\* Rows are removed from a table that still names every edge.
DeleteConRow ==
  /\ conFile # None
  /\ MissingEdges([k \in 1..Len(conFile) |-> edge(conFile[k])]) = {}
  /\ \E k \in 1..Len(conFile) :
       conFile' = SubSeq(conFile, 1, k - 1) \o SubSeq(conFile, k + 1, Len(conFile))
  /\ last' = [op |-> "delete", result |-> "ok", ans |-> ""]
  /\ UNCHANGED <<geomVars, axisVars, coef, surfVars, kwargs, J1, perturbed,
                 tu, tv, con, indexVars, dvVars>>

\* readEdgeConnectivity (lines 1181-1208) of the table on disk.
readEdgeConnectivity(ans) ==
  IF con # None /\ ans = "0"
    THEN /\ last' = [op |-> "read", result |-> "quit", ans |-> ans]
         /\ UNCHANGED <<geomVars, axisVars, coef, surfVars, kwargs, J1, perturbed,
                        tu, tv, con, indexVars, conFile, dvVars>>
    ELSE IF conFile = None
      THEN \* self.con = [] is assigned before open() raises
           /\ con' = << >>
           /\ last' = [op |-> "read", result |-> "IOError",
                       ans |-> IF con # None THEN ans ELSE ""]
           /\ UNCHANGED <<geomVars, axisVars, coef, surfVars, kwargs, J1, perturbed,
                          tu, tv, indexVars, conFile, dvVars>>
      ELSE \E c \in {[k \in 1..Len(conFile) |-> edge(conFile[k])]} :
           \E s \in {setEdgeConnectivity(c)} :
             /\ con' = c
             /\ SetIndexState(s)
             /\ last' = [op |-> "read", result |-> s.err,
                         ans |-> IF con # None THEN ans ELSE ""]
             /\ UNCHANGED <<geomVars, axisVars, surfVars, kwargs, J1, perturbed,
                            tu, tv, conFile, dvVars>>

ReadEdgeConnectivity == \E ans \in Answers : readEdgeConnectivity(ans)

\* ------------------------------------------------- propagateKnotVectors
\* Lines 1223-1234: the buckets dg, one list of records per driving group.
\* b = [dg, dg_counter, err].
bucketStep(b, ed) ==
  IF ed.dg > b.dg_counter
    THEN [b EXCEPT !.dg = Append(@, <<ed>>), !.dg_counter = @ + 1]
    ELSE LET k == IF ed.dg >= 0 THEN ed.dg ELSE Len(b.dg) + ed.dg
         IN  IF k \in 0..(Len(b.dg) - 1)
               THEN [b EXCEPT !.dg[k + 1] = Append(@, ed)]
               ELSE [b EXCEPT !.err = "IndexError"]

RECURSIVE buckets(_, _, _)
buckets(b, c, i) ==
  IF i > Len(c) \/ b.err # "ok" THEN b
  ELSE buckets(bucketStep(b, c[i]), c, i + 1)

\* 0.5*(a+b) on knot values: exact, or Inexact where the model's integers
\* cannot hold it.
Inexact == 0 - 1000

Half(x) == IF x % 2 = 0 THEN x \div 2 ELSE Inexact

\* Lines 1258-1275: beg = 0.5*(beg1+beg2) is written to the first half and
\* (1-beg)[::-1] to the second half, which starts at index 'upper'.
symmetrizeHalves(knot_vec, mid, upper) ==
  LET n == Len(knot_vec)
      beg1 == [q \in 1..mid |-> knot_vec[q]]
      beg2 == [q \in 1..mid |-> KnotOne - knot_vec[n + 1 - q]]
      beg == [q \in 1..mid |-> Half(beg1[q] + beg2[q])]
  IN  [q \in 1..n |->
         IF q <= mid THEN beg[q]
         ELSE IF q > upper THEN KnotOne - beg[n + 1 - q]
         ELSE knot_vec[q]]

symmetrize(knot_vec) ==
  IF Len(knot_vec) % 2 = 1
    THEN symmetrizeHalves(knot_vec, (Len(knot_vec) - 1) \div 2,
                          (Len(knot_vec) - 1) \div 2 + 1)
    ELSE symmetrizeHalves(knot_vec, Len(knot_vec) \div 2, Len(knot_vec) \div 2)

\* Lines 1252-1256: the knot vector of the first record of a group.
firstKnots(k, first_edge) ==
  IF first_edge.e1 = 0 \/ first_edge.e1 = 1 THEN k.tu[first_edge.f1]
  ELSE k.tv[first_edge.f1]

setKnots(k, face, e, knot_vec) ==
  IF e = 0 \/ e = 1 THEN [k EXCEPT !.tu[face] = knot_vec]
  ELSE [k EXCEPT !.tv[face] = knot_vec]

\* Lines 1279-1300: copy knot_vec to the faces of the records of a group.
RECURSIVE copyKnots(_, _, _, _)
copyKnots(k, grp, j, knot_vec) ==
  IF j > Len(grp) THEN k
  ELSE LET cur_edge == grp[j]
           k1 == setKnots(k, cur_edge.f1, cur_edge.e1, knot_vec)
           k2 == IF cur_edge.type = 1
                   THEN setKnots(k1, cur_edge.f2, cur_edge.e2, knot_vec)
                   ELSE k1
       IN  copyKnots(k2, grp, j + 1, knot_vec)

\* Lines 1241-1248.
isSymmetric(grp) == \E j \in 1..Len(grp) : grp[j].dir = -1

\* The knot vector a group is given (lines 1251-1275).
groupKnots(k, grp) ==
  IF isSymmetric(grp) THEN symmetrize(firstKnots(k, grp[1]))
  ELSE firstKnots(k, grp[1])

\* Lines 1236-1301: k = [tu, tv].
RECURSIVE groupLoop(_, _, _)
groupLoop(k, dg, i) ==
  IF i > Len(dg) THEN k
  ELSE groupLoop(copyKnots(k, dg[i], 1, groupKnots(k, dg[i])), dg, i + 1)

\* propagateKnotVectors (lines 1219-1308).
PropagateKnotVectors ==
  IF con = None
    THEN /\ last' = [op |-> "propagate", result |-> "TypeError", ans |-> ""]
         /\ UNCHANGED <<geomVars, axisVars, coef, surfVars, kwargs, J1, perturbed,
                        tu, tv, con, indexVars, conFile, dvVars>>
    ELSE \E b \in {buckets([dg |-> << >>, dg_counter |-> -1, err |-> "ok"], con, 1)} :
           IF b.err # "ok"
             THEN /\ last' = [op |-> "propagate", result |-> b.err, ans |-> ""]
                  /\ UNCHANGED <<geomVars, axisVars, coef, surfVars, kwargs, J1, perturbed,
                                 tu, tv, con, indexVars, conFile, dvVars>>
             ELSE \E k \in {groupLoop([tu |-> tu, tv |-> tv], b.dg, 1)} :
                    /\ tu' = k.tu
                    /\ tv' = k.tv
                    /\ last' = [op |-> "propagate", result |-> "ok", ans |-> ""]
                    /\ UNCHANGED <<geomVars, axisVars, coef, surfVars, kwargs, J1, perturbed,
                                   con, indexVars, conFile, dvVars>>

\* ------------------------------------------------------ design variables
DVNames == {"twist", "sweep", "chord"}

\* dict[key] = value
SetItem(d, key, value) ==
  [n \in DOMAIN d \cup {key} |-> IF n = key THEN value ELSE d[n]]

\* addGeoDVGlobal (lines 1912-1917).
addGeoDVGlobal(dv_name, value) ==
  /\ Len(DV_listGlobal) + Len(DV_listLocal) < MaxDV
  /\ DV_listGlobal' = Append(DV_listGlobal, [name |-> dv_name, value |-> value])
  /\ DV_namesGlobal' = SetItem(DV_namesGlobal, dv_name, Len(DV_listGlobal') - 1)
  /\ last' = [op |-> "addGlobal", result |-> "ok", ans |-> ""]
  /\ UNCHANGED <<geomVars, axisVars, coef, surfVars, kwargs, J1, perturbed,
                 tu, tv, con, indexVars, conFile, DV_listLocal, DV_namesLocal>>

AddGeoDVGlobal == \E dv_name \in DVNames : addGeoDVGlobal(dv_name, 0)

\* Lines 1881-1899 with bounding_box = None: the indices of the control
\* points of surf that are the first entry of their global_coef list.
\* n counts the cells, j fastest.
RECURSIVE masterCoefs(_, _)
masterCoefs(surf, n) ==
  IF n >= shape[surf][1] * shape[surf][2] THEN << >>
  ELSE LET i == n \div shape[surf][2]
           j == n % shape[surf][2]
           cur_index == globalCtlIndex[surf][<<i, j>>]
       IN  IF global_coef[cur_index + 1][1] = <<surf, i, j>>
             THEN <<cur_index>> \o masterCoefs(surf, n + 1)
             ELSE masterCoefs(surf, n + 1)

\* geoDVLocal.__init__ (lines 2493-2534).
geoDVLocal(dv_name, surface_id, coef_list) ==
  [name |-> dv_name, surface_id |-> surface_id, coef_list |-> coef_list,
   value |-> [k \in 1..Len(coef_list) |-> 0],
   local_coef_index |->
     [k \in 1..Len(coef_list) |->
        <<global_coef[coef_list[k] + 1][1][2], global_coef[coef_list[k] + 1][1][3]>>]]

\* Whether every control point of surf has an index into global_coef.
Indexed(surf) ==
  \A c \in Cells(shape[surf]) :
    globalCtlIndex[surf][c] \in 0..(Len(global_coef) - 1)

\* addGeoDVLocal (lines 1868-1909) with bounding_box = None.
addGeoDVLocal(dv_name, surf) ==
  /\ Len(DV_listGlobal) + Len(DV_listLocal) < MaxDV
  /\ IF ~Indexed(surf)
       THEN /\ last' = [op |-> "addLocal", result |-> "IndexError", ans |-> ""]
            /\ UNCHANGED <<DV_listLocal, DV_namesLocal>>
       ELSE /\ DV_listLocal' = Append(DV_listLocal,
                                 geoDVLocal(dv_name, surf, masterCoefs(surf, 0)))
            /\ DV_namesLocal' = SetItem(DV_namesLocal, dv_name, Len(DV_listLocal') - 1)
            /\ last' = [op |-> "addLocal", result |-> "ok", ans |-> ""]
  /\ UNCHANGED <<geomVars, axisVars, coef, surfVars, kwargs, J1, perturbed,
                 tu, tv, con, indexVars, conFile, DV_listGlobal, DV_namesGlobal>>

AddGeoDVLocal == \E dv_name \in DVNames : \E surf \in Patches : addGeoDVLocal(dv_name, surf)

\* The bounding boxes of the callers: rectangles parallel to the plane z = 0,
\* given by two opposite corners <<x, y>>.
Boxes == {[pt1 |-> <<-1, 1>>, pt2 |-> <<3, 3>>],
          [pt1 |-> <<-1, 3>>, pt2 |-> <<3, 5>>],
          [pt1 |-> <<-1, 1>>, pt2 |-> <<1, 5>>]}

\* Whether the projection of point x onto the box lies strictly inside it
\* (0 < u0 < 1 and 0 < v0 < 1, line 2648).
Inside(box, x) ==
  /\ box.pt1[1] < x[1] /\ x[1] < box.pt2[1]
  /\ box.pt1[2] < x[2] /\ x[2] < box.pt2[2]

\* bounding_box.findBoundedCtl (lines 2640-2655) from cell n on, j fastest:
\* the global index of every control point of the patch inside the box.
RECURSIVE findBoundedCtl(_, _, _)
findBoundedCtl(box, surf, n) ==
  IF n >= shape[surf][1] * shape[surf][2] THEN << >>
  ELSE LET i == n \div shape[surf][2]
           j == n % shape[surf][2]
       IN  IF Inside(box, surf_coef[surf][<<i, j>>])
             THEN <<globalCtlIndex[surf][<<i, j>>]>> \o findBoundedCtl(box, surf, n + 1)
             ELSE findBoundedCtl(box, surf, n + 1)

\* addGeoDVLocal (lines 1868-1909) with a bounding box.
addGeoDVLocalBox(dv_name, surf, box) ==
  /\ Len(DV_listGlobal) + Len(DV_listLocal) < MaxDV
  /\ IF ~Indexed(surf)
       THEN /\ last' = [op |-> "addLocalBox", result |-> "IndexError", ans |-> ""]
            /\ UNCHANGED <<DV_listLocal, DV_namesLocal>>
       ELSE /\ DV_listLocal' = Append(DV_listLocal,
                                 geoDVLocal(dv_name, surf, findBoundedCtl(box, surf, 0)))
            /\ DV_namesLocal' = SetItem(DV_namesLocal, dv_name, Len(DV_listLocal') - 1)
            /\ last' = [op |-> "addLocalBox", result |-> "ok", ans |-> ""]
  /\ UNCHANGED <<geomVars, axisVars, coef, surfVars, kwargs, J1, perturbed,
                 tu, tv, con, indexVars, conFile, DV_listGlobal, DV_namesGlobal>>

AddGeoDVLocalBox ==
  \E dv_name \in DVNames : \E surf \in Patches : \E box \in Boxes :
    addGeoDVLocalBox(dv_name, surf, box)

\* The values the caller gives a design variable: its baseline 0, or 1.
DVValues == {0, 1}

\* The caller assigns the attribute value of a global design variable
\* (geoDVGlobal.value, line 2472).
SetGlobalValue ==
  /\ \E i \in 1..Len(DV_listGlobal) : \E v \in DVValues :
       /\ v # DV_listGlobal[i].value
       /\ DV_listGlobal' = [DV_listGlobal EXCEPT ![i].value = v]
       /\ perturbed' = perturbed \ {i}
  /\ last' = [op |-> "setGlobal", result |-> "ok", ans |-> ""]
  /\ UNCHANGED <<geomVars, axisVars, coef, surfVars, kwargs, J1, tu, tv, con, indexVars,
                 conFile, DV_namesGlobal, DV_listLocal, DV_namesLocal>>

\* The caller assigns the attribute value of a local design variable
\* (geoDVLocal.value, line 2512): the same value for each of its points.
SetLocalValue ==
  /\ \E i \in 1..Len(DV_listLocal) : \E v \in DVValues :
       /\ DV_listLocal[i].value # [k \in 1..Len(DV_listLocal[i].coef_list) |-> v]
       /\ DV_listLocal' = [DV_listLocal EXCEPT
                             ![i].value = [k \in 1..Len(DV_listLocal[i].coef_list) |-> v]]
  /\ last' = [op |-> "setLocal", result |-> "ok", ans |-> ""]
  /\ UNCHANGED <<geomVars, axisVars, coef, surfVars, kwargs, J1, perturbed,
                 tu, tv, con, indexVars,
                 conFile, DV_listGlobal, DV_namesGlobal, DV_namesLocal>>

\* ------------------------------------------------------------ the patches
\* The pairs <<isurf, i, jpatch, j>> test_edge may report coincident: edges
\* of two patches with the same number of control points.
CoinKeys(n, sh) ==
  {k \in (0..(n - 1)) \X Edges \X (0..(n - 1)) \X Edges :
     k[1] < k[3] /\ EdgeLen(sh[k[1]], k[2]) = EdgeLen(sh[k[3]], k[4])}

\* The subsets of S with at most k elements.
RECURSIVE SubsetsUpTo(_, _)
SubsetsUpTo(S, k) ==
  IF k = 0 THEN {{}}
  ELSE LET P == SubsetsUpTo(S, k - 1)
       IN  P \cup {p \cup {x} : p \in P, x \in S}

\* The outcomes of test_edge with at most k coincident pairs.
Coins(n, sh, k, dirs) ==
  UNION {[D -> dirs] : D \in SubsetsUpTo(CoinKeys(n, sh), k)}

\* A clamped knot vector of a direction with N control points whose interior
\* knots are the members of the set inner (N - SplineOrder of them).
RECURSIVE SortedSeq(_)
SortedSeq(S) ==
  IF S = {} THEN << >>
  ELSE LET m == CHOOSE x \in S : \A y \in S : x <= y
       IN  <<m>> \o SortedSeq(S \ {m})

Clamped(inner) ==
  [k \in 1..SplineOrder |-> 0] \o SortedSeq(inner) \o [k \in 1..SplineOrder |-> KnotOne]

\* The keyword arguments of a constructor call that has returned.
NoKwargs == [breaks |-> "done"]

\* The state of a pyGeo object after __init__ (lines 144-153) on patches of
\* the given geometry and knots.  The control point (i, j) of patch p is
\* placed at <<i, j, p>>: the operations on connectivity, knots and
\* registration never read the coordinates.
InitObject ==
  /\ con = None
  /\ global_coef = << >>
  /\ globalCtlIndex = [p \in 0..(nSurf - 1) |-> [c \in Cells(shape[p]) |-> Unset]]
  /\ Ncoef = Unset
  /\ coef_shapes = << >>
  /\ slices = << >>
  /\ conFile = None
  /\ DV_listGlobal = << >>
  /\ DV_namesGlobal = << >>
  /\ DV_listLocal = << >>
  /\ DV_namesLocal = << >>
  /\ ref_axis = << >>
  /\ ref_axis_con = << >>
  /\ coef = << >>
  /\ surf_coef = [p \in 0..(nSurf - 1) |-> [c \in Cells(shape[p]) |-> <<c[1], c[2], p>>]]
  /\ updated = [p \in 0..(nSurf - 1) |-> [c \in Cells(shape[p]) |-> 0]]
  /\ kwargs = NoKwargs
  /\ J1 = NoMatrix
  /\ perturbed = {}
  /\ last = [op |-> "init", result |-> "ok", ans |-> ""]

\* Interior knots of a direction with N control points: evenly spread, or
\* with the first one moved towards 0.
UniformInner(N) ==
  {2 * ((k * (KnotOne \div 2)) \div (N - SplineOrder + 1)) : k \in 1..(N - SplineOrder)}

SkewedInner(N) ==
  IF N - SplineOrder = 0 THEN {}
  ELSE (UniformInner(N) \ {2 * ((KnotOne \div 2) \div (N - SplineOrder + 1))}) \cup {1 + 1}

UniformKnotsOf(sh) ==
  /\ tu = [p \in DOMAIN sh |-> Clamped(UniformInner(sh[p][1]))]
  /\ tv = [p \in DOMAIN sh |-> Clamped(UniformInner(sh[p][2]))]

\* Up to MaxSurf square patches and up to MaxJoinTopo coincident edge pairs,
\* any edge with any edge, an edge with several edges included.
InitTopology ==
  /\ nSurf \in 1..MaxSurf
  /\ shape = [p \in 0..(nSurf - 1) |-> <<3, 3>>]
  /\ coin \in Coins(nSurf, shape, MaxJoinTopo, {1})
  /\ UniformKnotsOf(shape)
  /\ InitObject

\* Up to MaxSurf patches of one shape and up to MaxJoin coincident edge pairs
\* in either direction.
InitIndex ==
  /\ nSurf \in 1..MaxSurf
  /\ \E sh \in Shapes : shape = [p \in 0..(nSurf - 1) |-> sh]
  /\ coin \in Coins(nSurf, shape, MaxJoin, {1, -1})
  /\ UniformKnotsOf(shape)
  /\ InitObject

\* Up to MaxSurfSmall patches of one shape whose knot vectors are evenly
\* spread or skewed, patch by patch, and up to MaxJoin coincident edge pairs.
InitKnots ==
  /\ nSurf \in 1..MaxSurfSmall
  /\ \E sh \in KnotShapes : shape = [p \in 0..(nSurf - 1) |-> sh]
  /\ coin \in Coins(nSurf, shape, MaxJoin, {1, -1})
  /\ \E skew \in SUBSET (0..(nSurf - 1)) :
       /\ tu = [p \in 0..(nSurf - 1) |->
                  Clamped(IF p \in skew THEN SkewedInner(shape[p][1])
                          ELSE UniformInner(shape[p][1]))]
       /\ tv = [p \in 0..(nSurf - 1) |->
                  Clamped(IF p \in skew THEN SkewedInner(shape[p][2])
                          ELSE UniformInner(shape[p][2]))]
  /\ InitObject

\* The two-patch scenario: patches A = 0 and B = 1 with 6 x 4 control points
\* whose only coincident edges are edge 1 of A and edge 0 of B.
ScenarioShape == <<6, 4>>

IsScenario ==
  /\ nSurf = 2
  /\ shape = [p \in 0..1 |-> ScenarioShape]
  /\ DOMAIN coin = {<<0, 1, 1, 0>>}

InitScenario ==
  /\ nSurf = 2
  /\ shape = [p \in 0..1 |-> ScenarioShape]
  /\ coin \in [{<<0, 1, 1, 0>>} -> {1, -1}]
  /\ UniformKnotsOf(shape)
  /\ InitObject

\* ------------------------------------------------------ vectors, rotations
\* Points and offsets are integer vectors <<x, y, z>>; angles are counted in
\* quarter turns, so that every rotation matrix has integer entries.
VAdd(a, b) ==
  CHOOSE out \in {<<x[1] + y[1], x[2] + y[2], x[3] + y[3]>> : x \in {a}, y \in {b}} : TRUE

VSub(a, b) ==
  CHOOSE out \in {<<x[1] - y[1], x[2] - y[2], x[3] - y[3]>> : x \in {a}, y \in {b}} : TRUE

VScale(a, k) ==
  CHOOSE out \in {<<x[1] * y, x[2] * y, x[3] * y>> : x \in {a}, y \in {k}} : TRUE

Dist2(a, b) ==
  (a[1] - b[1]) * (a[1] - b[1]) + (a[2] - b[2]) * (a[2] - b[2])
    + (a[3] - b[3]) * (a[3] - b[3])

Cos(q) == CASE q % 4 = 0 -> 1 [] q % 4 = 2 -> 0 - 1 [] OTHER -> 0

Sin(q) == CASE q % 4 = 1 -> 1 [] q % 4 = 3 -> 0 - 1 [] OTHER -> 0

rotxM(q) == <<<<1, 0, 0>>, <<0, Cos(q), 0 - Sin(q)>>, <<0, Sin(q), Cos(q)>>>>

rotyM(q) == <<<<Cos(q), 0, Sin(q)>>, <<0, 1, 0>>, <<0 - Sin(q), 0, Cos(q)>>>>

rotzM(q) == <<<<Cos(q), 0 - Sin(q), 0>>, <<Sin(q), Cos(q), 0>>, <<0, 0, 1>>>>

\* The list <<f[1], ..., f[n]>> of the values of f.
RECURSIVE ListOf(_, _)
ListOf(f, n) == IF n = 0 THEN << >> ELSE Append(ListOf(f, n - 1), f[n])

\* numpy.dot of a matrix and a vector, and of two matrices.
dot(M, v) ==
  CHOOSE out \in
    {<<m[1][1] * w[1] + m[1][2] * w[2] + m[1][3] * w[3],
       m[2][1] * w[1] + m[2][2] * w[2] + m[2][3] * w[3],
       m[3][1] * w[1] + m[3][2] * w[2] + m[3][3] * w[3]>> : m \in {M}, w \in {v}} : TRUE

dotM(A, B) ==
  CHOOSE C \in {<<dot(<<b[1], b[2], b[3]>>, a[1]), dot(<<b[1], b[2], b[3]>>, a[2]),
                  dot(<<b[1], b[2], b[3]>>, a[3])>> :
                  a \in {A},
                  b \in {<<<<B[1][1], B[2][1], B[3][1]>>, <<B[1][2], B[2][2], B[3][2]>>,
                           <<B[1][3], B[2][3], B[3][3]>>>>}} : TRUE

det(M) ==
  M[1][1] * (M[2][2] * M[3][3] - M[2][3] * M[3][2])
    - M[1][2] * (M[2][1] * M[3][3] - M[2][3] * M[3][1])
    + M[1][3] * (M[2][1] * M[3][2] - M[2][2] * M[3][1])

\* The cofactor of M at row i and column j.
Cofactor(M, i, j) ==
  LET r1 == (i % 3) + 1
      r2 == ((i + 1) % 3) + 1
      c1 == (j % 3) + 1
      c2 == ((j + 1) % 3) + 1
  IN  M[r1][c1] * M[r2][c2] - M[r1][c2] * M[r2][c1]

\* numpy.linalg.inv: the adjugate over the determinant (1 or -1 here).
inv(M) ==
  CHOOSE r \in {<<<<Cofactor(m, 1, 1) * d, Cofactor(m, 2, 1) * d, Cofactor(m, 3, 1) * d>>,
                  <<Cofactor(m, 1, 2) * d, Cofactor(m, 2, 2) * d, Cofactor(m, 3, 2) * d>>,
                  <<Cofactor(m, 1, 3) * d, Cofactor(m, 2, 3) * d, Cofactor(m, 3, 3) * d>>>> :
                  m \in {M}, d \in {det(M)}} : TRUE

\* ---------------------------------------------------------- class ref_axis
\* The parameter value 1 of a curve; anchor k of N has parameter k/(N-1).
SOne == 1 + 1

\* The value None of an attribute that holds a vector.
NoVec == << >>

\* spline.getValue(s), spline(s): the curve through the coefficients c at
\* the parameter s of one of its anchors.
getValue(c, s) == c[(s * (Len(c) - 1)) \div SOne + 1]

\* The parameters of the anchors of a curve with coefficients c.
AnchorParams(c) == {(k * SOne) \div (Len(c) - 1) : k \in 0..(Len(c) - 1)}

\* spline.projectPoint(x0): the parameter s of the anchor closest to x0 (the
\* first one of several) and the vector D from the curve at s to x0.
projectPoint(c, x0) ==
  CHOOSE out \in
    {LET s == CHOOSE a \in AnchorParams(cc) :
                \A b \in AnchorParams(cc) :
                  \/ Dist2(getValue(cc, a), x) < Dist2(getValue(cc, b), x)
                  \/ (Dist2(getValue(cc, a), x) = Dist2(getValue(cc, b), x) /\ a <= b)
     IN  [s |-> s, D |-> VSub(x, getValue(cc, s))] : cc \in {c}, x \in {x0}} : TRUE

\* ref_axis.__init__ (lines 2346-2411) past the check of the shapes.
ref_axis_init(X, rot) ==
  [links_s |-> << >>, links_x |-> << >>, con_type |-> "None",
   N |-> Len(X),
   base_point |-> X[1], base_point_s |-> Unset, base_point_D |-> NoVec,
   end_point |-> Last(X), end_point_s |-> Unset, end_point_D |-> NoVec,
   x |-> ListOf([k \in 1..Len(X) |-> VSub(X[k], X[1])], Len(X)),
   rot |-> rot,
   scale |-> ListOf([k \in 1..Len(X) |-> 1], Len(X)),
   x0 |-> ListOf([k \in 1..Len(X) |-> VSub(X[k], X[1])], Len(X)),
   rot0 |-> rot,
   scale0 |-> ListOf([k \in 1..Len(X) |-> 1], Len(X)),
   xs |-> X, rots |-> rot, scales |-> ListOf([k \in 1..Len(X) |-> 1], Len(X)),
   coef_list |-> << >>, surf_ids |-> << >>]

\* An update that also measures the offsets of the links anew, from the
\* moved curve to the anchors of the axis.
axis_updateRelinking(ra) ==
  CHOOSE out \in
    {[ra EXCEPT !.xs = IF ra.con_type = "full" THEN SetLast(c, ra.end_point) ELSE c,
                !.rots = ra.rot,
                !.scales = ra.scale,
                !.links_x = ListOf([k \in 1..Len(ra.links_x) |->
                                      VSub(ra.links_x[k], VSub(c[ra.N], ra.xs[ra.N]))],
                                   Len(ra.links_x))] :
       c \in {ListOf([k \in 1..ra.N |-> VAdd(ra.base_point, ra.x[k])], ra.N)}} : TRUE

\* ref_axis.update (lines 2413-2426); xs, rots and scales hold the
\* coefficients of the curves xs, rotxs/rotys/rotzs and scales.
axis_update(ra) ==
  CHOOSE out \in
    {[ra EXCEPT !.xs = IF ra.con_type = "full" THEN SetLast(c, ra.end_point) ELSE c,
                !.rots = ra.rot,
                !.scales = ra.scale] :
       c \in {ListOf([k \in 1..ra.N |-> VAdd(ra.base_point, ra.x[k])], ra.N)}} : TRUE

\* ref_axis.getRotMatrixGlobalToLocal (lines 2439-2444).
getRotMatrixGlobalToLocal(ra, s) ==
  CHOOSE M \in {dotM(rotyM(q[2]), dotM(rotxM(q[1]), rotzM(q[3]))) :
                  q \in {getValue(ra.rots, s)}} : TRUE

\* A rotation back to the global frame that leaves out the inverse.
getRotMatrixLocalToGlobalNoInv(ra, s) ==
  CHOOSE M \in {dotM(rotyM(q[2]), dotM(rotxM(q[1]), rotzM(q[3]))) :
                  q \in {getValue(ra.rots, s)}} : TRUE

\* ref_axis.getRotMatrixLocalToGlobal (lines 2446-2451).
getRotMatrixLocalToGlobal(ra, s) ==
  CHOOSE M \in {inv(dotM(rotyM(q[2]), dotM(rotxM(q[1]), rotzM(q[3])))) :
                  q \in {getValue(ra.rots, s)}} : TRUE

\* ------------------------------------------------- _init_lifting_surface
\* Whether the constructor has returned an object.
Constructed == kwargs = NoKwargs

\* What surf_spline gives a patch it fits: ku = kv = 4 control points each
\* way, evenly spread knots, no global index yet.
FittedShape == <<4, 4>>

NewSurfaces(n) ==
  /\ nSurf' = n
  /\ shape' = [p \in 0..(n - 1) |-> FittedShape]
  /\ tu' = [p \in 0..(n - 1) |-> Clamped(UniformInner(FittedShape[1]))]
  /\ tv' = [p \in 0..(n - 1) |-> Clamped(UniformInner(FittedShape[2]))]
  /\ globalCtlIndex' = [p \in 0..(n - 1) |-> [c \in Cells(FittedShape) |-> Unset]]
  /\ surf_coef' = [p \in 0..(n - 1) |-> [c \in Cells(FittedShape) |-> <<c[1], c[2], p>>]]
  /\ updated' = [p \in 0..(n - 1) |-> [c \in Cells(FittedShape) |-> 0]]

\* _init_lifting_surface (lines 356-598) called with kwargs: the lengths of
\* xsections, scale, offset, Xsec and rot, and breaks "absent" from the
\* keywords, the "empty" list, or "one" break with its cont.
init_lifting_surface ==
  LET naf == kwargs.xsections
      result ==
        IF ~(kwargs.xsections = kwargs.scale /\ kwargs.scale = kwargs.offset)
          THEN "exit"                               \* lines 369-377
        ELSE IF kwargs.rot < naf \/ kwargs.Xsec < naf
          THEN "IndexError"                         \* lines 463, 471
        ELSE IF kwargs.breaks = "absent"
          THEN "UnboundLocalError"                  \* line 480
        ELSE IF kwargs.breaks = "empty"
          THEN "NameError"                          \* line 596
        ELSE "ok"
  IN  /\ ~Constructed
      /\ last.op = "new"
      /\ last' = [op |-> "lifting", result |-> result, ans |-> ""]
      /\ kwargs' = IF result = "ok" THEN NoKwargs ELSE kwargs
      /\ IF result = "ok" THEN NewSurfaces((1 + 1) * (1 + 1))      \* lines 574-593
         ELSE IF result = "NameError" THEN NewSurfaces(1 + 1)      \* lines 589-593
         ELSE UNCHANGED <<nSurf, shape, tu, tv, globalCtlIndex, surfVars>>
      /\ UNCHANGED <<coin, con, global_coef, Ncoef, coef_shapes, slices, conFile,
                     dvVars, axisVars, coef, J1, perturbed>>

\* ------------------------------------------------------------- addRefAxis
MaxAxis == 2

\* sorted(unique(l)) of a list of integers.
SortedUnique(l) == SortedSeq({l[k] : k \in 1..Len(l)})

\* Lines 1567-1576 with bounding_box = None: the global indices of every
\* control point of the patches surf_ids, patch by patch, j fastest.
RECURSIVE surfCoefList(_, _, _)
surfCoefList(surf_ids, m, n) ==
  IF m > Len(surf_ids) THEN << >>
  ELSE IF n >= shape[surf_ids[m]][1] * shape[surf_ids[m]][2]
    THEN surfCoefList(surf_ids, m + 1, 0)
  ELSE <<globalCtlIndex[surf_ids[m]][<<n \div shape[surf_ids[m]][2],
                                       n % shape[surf_ids[m]][2]>>]>>
         \o surfCoefList(surf_ids, m, n + 1)

\* Lines 1589-1599: the link of the control point coef[ii] to the axis ra.
linkOf(ra, ii) ==
  CHOOSE out \in
    {[s |-> s, D |-> dot(getRotMatrixGlobalToLocal(ra, s),
                         VSub(coef[ii + 1], getValue(ra.xs, s)))] :
       s \in {projectPoint(ra.xs, coef[ii + 1]).s}} : TRUE

\* Lines 1565-1601: the axis that addRefAxis builds on the patches surf_ids.
newRefAxis(surf_ids, X, rot) ==
  CHOOSE out \in
    {CHOOSE linked \in
       {[ra EXCEPT
           !.links_s = ListOf([k \in 1..Len(coef_list) |-> links[k].s], Len(coef_list)),
           !.links_x = ListOf([k \in 1..Len(coef_list) |-> links[k].D], Len(coef_list)),
           !.coef_list = coef_list,
           !.surf_ids = surf_ids] :
          links \in {ListOf([k \in 1..Len(coef_list) |-> linkOf(ra, coef_list[k])],
                            Len(coef_list))}} : TRUE :
       ra \in {ref_axis_init(X, rot)},
       coef_list \in {SortedUnique(surfCoefList(surf_ids, 1, 0))}} : TRUE

\* addRefAxis (lines 1499-1603) with nrefsecs = None and bounding_box = None.
addRefAxis(surf_ids, X, rot) ==
  /\ Constructed
  /\ Len(ref_axis) < MaxAxis
  /\ IF Len(X) # Len(rot)
       THEN \* ref_axis.__init__ leaves at line 2370
            /\ last' = [op |-> "addRefAxis", result |-> "exit", ans |-> "",
                        nX |-> Len(X), nrot |-> Len(rot)]
            /\ UNCHANGED ref_axis
       ELSE \E coef_list \in {SortedUnique(surfCoefList(surf_ids, 1, 0))} :
              IF \E k \in 1..Len(coef_list) :
                   \/ PyIndex(coef_list[k], Len(global_coef)) < 0
                   \/ coef_list[k] \notin 0..(Len(coef) - 1)
                THEN /\ last' = [op |-> "addRefAxis", result |-> "IndexError", ans |-> "",
                                 nX |-> Len(X), nrot |-> Len(rot)]
                     /\ UNCHANGED ref_axis
                ELSE /\ ref_axis' = Append(ref_axis, newRefAxis(surf_ids, X, rot))
                     /\ last' = [op |-> "addRefAxis", result |-> "ok", ans |-> "",
                                 nX |-> Len(X), nrot |-> Len(rot)]
  /\ UNCHANGED <<geomVars, tu, tv, con, indexVars, conFile, dvVars, ref_axis_con,
                 coef, surfVars, kwargs, J1, perturbed>>

\* The anchors and the rotations the caller may pass: axes along the span of
\* the strip of patches, with two or three anchors.
AxisX ==
  {<<<<0, 0, 0>>, <<0, 2, 0>>>>,
   <<<<2, 2, 0>>, <<2, 3, 0>>, <<2, 4, 0>>>>}

AxisRot ==
  {<<<<0, 0, 0>>, <<0, 0, 0>>>>,
   <<<<0, 0, 0>>, <<1, 0, 1>>>>,
   <<<<0, 0, 0>>, <<0, 0, 0>>, <<0, 0, 0>>>>}

AddRefAxis ==
  \E surf \in Patches : \E X \in AxisX : \E rot \in AxisRot : addRefAxis(<<surf>>, X, rot)

\* ---------------------------------------------------------- addRefAxisCon
MaxCon == 2

\* What a caller passes as con_type: 'full', or a connection of the base
\* point alone.
ConTypes == {"full", "base"}

\* A registration that accepts every child.
fullAlwaysAllowed(child) == TRUE

\* The assertion of lines 1622-1624 on the child of a 'full' connection.
fullAllowed(child) == child.N = 2

\* Lines 1612-1616 and 1626-1630: the parameter on the parent's curve of the
\* point at parameter s of the child's curve, and the offset in the parent's
\* local frame.
attachment(parent, child, s) ==
  CHOOSE out \in
    {[s |-> p.s, D |-> dot(getRotMatrixGlobalToLocal(parent, p.s), p.D)] :
       p \in {projectPoint(parent.xs, getValue(child.xs, s))}} : TRUE

\* addRefAxisCon (lines 1605-1639) on the axes and the connections given;
\* axis1 and axis2 are places of self.ref_axis.
connect(axes, cons, axis1, axis2, con_type) ==
  CHOOSE out \in
    {LET child == all[axis2 + 1]
         marked == [child EXCEPT !.base_point_s = base.s,
                                 !.base_point_D = base.D,
                                 !.con_type = con_type]
     IN  IF con_type = "full" /\ ~fullAllowed(child)
           THEN [axes |-> [all EXCEPT ![axis2 + 1] = marked], cons |-> cons,
                 result |-> "AssertionError"]
           ELSE [axes |-> [all EXCEPT ![axis2 + 1] =
                             IF con_type = "full"
                               THEN [marked EXCEPT !.end_point_s = end.s,
                                                   !.end_point_D = end.D]
                               ELSE marked],
                 cons |-> Append(cons, <<axis1, axis2, con_type>>),
                 result |-> "ok"] :
       all \in {axes},
       base \in {attachment(axes[axis1 + 1], axes[axis2 + 1], 0)},
       end \in {attachment(axes[axis1 + 1], axes[axis2 + 1], SOne)}} : TRUE

addRefAxisCon(axis1, axis2, con_type) ==
  /\ Constructed
  /\ Len(ref_axis_con) < MaxCon
  /\ \E r \in {connect(ref_axis, ref_axis_con, axis1, axis2, con_type)} :
       /\ ref_axis' = r.axes
       /\ ref_axis_con' = r.cons
       /\ last' = [op |-> "addRefAxisCon", result |-> r.result, ans |-> "",
                   axis1 |-> axis1, axis2 |-> axis2, con_type |-> con_type]
  /\ UNCHANGED <<geomVars, tu, tv, con, indexVars, conFile, dvVars, coef, surfVars,
                 kwargs, J1, perturbed>>

\* The caller connects two different registered axes.
AddRefAxisCon ==
  \E axis1 \in 0..(Len(ref_axis) - 1) : \E axis2 \in 0..(Len(ref_axis) - 1) :
    \E con_type \in ConTypes :
      axis1 # axis2 /\ addRefAxisCon(axis1, axis2, con_type)

\* ------------------------------------------------------------ _updateCoef
\* The functions the caller registers with the global design variables:
\* "sweep" shears the anchors of every axis along x, "twist" turns them
\* about z and "chord" scales them, each from the axis's stored baseline and
\* in proportion to the place of the anchor.
DVFunction(name, value, axes) ==
  ListOf([r \in 1..Len(axes) |->
     CASE name = "sweep" ->
            [axes[r] EXCEPT !.x = ListOf([k \in 1..axes[r].N |->
                                     VAdd(axes[r].x0[k], <<value * (k - 1), 0, 0>>)],
                                         axes[r].N)]
       [] name = "twist" ->
            [axes[r] EXCEPT !.rot = ListOf([k \in 1..axes[r].N |->
                                       VAdd(axes[r].rot0[k], <<0, 0, value * (k - 1)>>)],
                                           axes[r].N)]
       [] OTHER ->
            [axes[r] EXCEPT !.scale = ListOf([k \in 1..axes[r].N |->
                                         axes[r].scale0[k] + value * (k - 1)],
                                             axes[r].N)]], Len(axes))

\* Lines 1650-1653: every global design variable of the list dvs is called
\* with the list of axes (geoDVGlobal.__call__, lines 2483-2488), from place
\* k on.
RECURSIVE applyGlobal(_, _, _)
applyGlobal(dvs, axes, k) ==
  IF k > Len(dvs) THEN axes
  ELSE CHOOSE out \in
         {applyGlobal(dvs, a, k + 1) :
            a \in {DVFunction(dvs[k].name, dvs[k].value, axes)}} : TRUE

\* Lines 1662-1671 and 1673-1682: the point that lies at the stored parameter
\* s and local offset D on the curve of the parent.
followParent(parent, s, D) ==
  CHOOSE x \in {VAdd(getValue(parent.xs, s), VScale(dot(M, D), getValue(parent.scales, s))) :
                  M \in {getRotMatrixLocalToGlobal(parent, s)}} : TRUE

\* Lines 1658-1685: one connection c = <<axis1, axis2, con_type>> of the
\* loop.  The curves take no parameter None: st.err tells that they raised.
conStep(st, c) ==
  CHOOSE out \in
    {LET axes1 == [st.axes EXCEPT ![c[1] + 1] = parent]
         child == axes1[c[2] + 1]
     IN  IF child.base_point_s = Unset
           THEN [axes |-> axes1, err |-> "TypeError"]
         ELSE LET based == [child EXCEPT
                              !.base_point = followParent(parent, child.base_point_s,
                                                          child.base_point_D)]
              IN  IF child.con_type = "full" /\ child.end_point_s = Unset
                    THEN [axes |-> [axes1 EXCEPT ![c[2] + 1] = based], err |-> "TypeError"]
                  ELSE [axes |-> [axes1 EXCEPT ![c[2] + 1] =
                                    axis_update(
                                      IF child.con_type = "full"
                                        THEN [based EXCEPT
                                                !.end_point =
                                                  followParent(parent, child.end_point_s,
                                                               child.end_point_D)]
                                        ELSE based)],
                        err |-> "ok"] :
       parent \in {axis_update(st.axes[c[1] + 1])}} : TRUE

RECURSIVE conLoop(_, _)
conLoop(st, i) ==
  IF st.err # "ok" \/ i > Len(ref_axis_con) THEN st
  ELSE CHOOSE out \in {conLoop(nxt, i + 1) : nxt \in {conStep(st, ref_axis_con[i])}} : TRUE

\* Lines 1655-1689: the axes after the connections were followed, or after
\* every axis was updated where no connection is registered.
updateAxes(axes) ==
  IF Len(ref_axis_con) > 0
    THEN conLoop([axes |-> axes, err |-> "ok"], 1)
    ELSE [axes |-> ListOf([r \in 1..Len(axes) |-> axis_update(axes[r])], Len(axes)),
          err |-> "ok"]

\* pyspline_cs.getcomplexcoef as lines 1697-1703 spell it out: every control
\* point linked to the axis ra is put at its stored parameter and offset.
RECURSIVE getcomplexcoef(_, _, _)
getcomplexcoef(ra, c, i) ==
  IF i > Len(ra.links_s) THEN c
  ELSE CHOOSE out \in
         {getcomplexcoef(ra, [c EXCEPT ![ra.coef_list[i] + 1] = x], i + 1) :
            x \in {followParent(ra, ra.links_s[i], ra.links_x[i])}} : TRUE

\* Lines 1691-1704: the axes in the order of self.ref_axis, from place r on.
RECURSIVE axesLoop(_, _, _)
axesLoop(axes, c, r) ==
  IF r > Len(axes) THEN c
  ELSE CHOOSE out \in {axesLoop(axes, c1, r + 1) : c1 \in {getcomplexcoef(axes[r], c, 1)}} : TRUE

\* The normal of the patches at a control point.
Normal == <<0, 0, 1>>

\* geoDVLocal.__call__ (lines 2536-2544): pyspline_cs.updatesurfacepoints
\* moves every control point of the variable along the normal by its value.
RECURSIVE updatesurfacepoints(_, _, _)
updatesurfacepoints(dv, c, k) ==
  IF k > Len(dv.coef_list) THEN c
  ELSE updatesurfacepoints(dv,
         [c EXCEPT ![dv.coef_list[k] + 1] = VAdd(@, VScale(Normal, dv.value[k]))],
         k + 1)

\* Lines 1719-1722: the local design variables in their order.
RECURSIVE localLoop(_, _)
localLoop(c, i) ==
  IF i > Len(DV_listLocal) THEN c
  ELSE localLoop(updatesurfacepoints(DV_listLocal[i], c, 1), i + 1)

\* An _updateCoef that moves the points of the local design variables before
\* the axes place theirs.
updateCoefLocalFirst(dvs, axes) ==
  CHOOSE out \in
    {IF st.err # "ok" THEN [axes |-> st.axes, coef |-> coef, err |-> st.err]
     ELSE [axes |-> st.axes, coef |-> axesLoop(st.axes, localLoop(coef, 1), 1),
           err |-> "ok"] :
       st \in {updateAxes(applyGlobal(dvs, axes, 1))}} : TRUE

\* _updateCoef (lines 1646-1724) with the global design variables dvs and
\* self.ref_axis = axes: the list of axes it leaves in self.ref_axis and the
\* coefficients it returns (err "ok"), or the exception it raises.  The
\* argument local is not read: the local design variables are applied in
\* every call.
updateCoefWith(dvs, axes) ==
  CHOOSE out \in
    {IF st.err # "ok" THEN [axes |-> st.axes, coef |-> coef, err |-> st.err]
     ELSE [axes |-> st.axes, coef |-> localLoop(axesLoop(st.axes, coef, 1), 1),
           err |-> "ok"] :
       st \in {updateAxes(applyGlobal(dvs, axes, 1))}} : TRUE

updateCoef == updateCoefWith(DV_listGlobal, ref_axis)

\* A scatter that writes the driving control point of each index alone.
updateSurfaceCoefFirstOnly(c) ==
  LET owner(p, cell) ==
        {ii \in 1..Len(c) : global_coef[ii][1] = <<p, cell[1], cell[2]>>}
  IN  [coef |-> [p \in Patches |-> [cell \in Cells(shape[p]) |->
                   IF owner(p, cell) = {} THEN surf_coef[p][cell]
                   ELSE c[CHOOSE ii \in owner(p, cell) : TRUE]]],
       updated |-> [p \in Patches |-> [cell \in Cells(shape[p]) |->
                      IF owner(p, cell) = {} THEN updated[p][cell] ELSE 1]]]

\* _updateSurfaceCoef (lines 1734-1746) with self.coef = c: the grids of
\* the patches and their marks.
updateSurfaceCoef(c) ==
  LET alias(p, cell) ==
        {ii \in 1..Len(c) :
           \E m \in 1..Len(global_coef[ii]) : global_coef[ii][m] = <<p, cell[1], cell[2]>>}
      last_ii(S) == CHOOSE ii \in S : \A jj \in S : jj <= ii
  IN  [coef |-> [p \in Patches |-> [cell \in Cells(shape[p]) |->
                   IF alias(p, cell) = {} THEN surf_coef[p][cell]
                   ELSE c[last_ii(alias(p, cell))]]],
       updated |-> [p \in Patches |-> [cell \in Cells(shape[p]) |->
                      IF alias(p, cell) = {} THEN updated[p][cell] ELSE 1]]]

\* The coordinates the control points are followed through.
MaxCoord == 6

InBox(c) ==
  \A ii \in 1..Len(c) : \A d \in 1..3 : c[ii][d] \in (0 - MaxCoord)..MaxCoord

AxesInBox ==
  \A r \in 1..Len(ref_axis) :
    InBox(<<ref_axis[r].base_point, ref_axis[r].end_point>>) /\ InBox(ref_axis[r].xs)

\* update (lines 1726-1732) of an object whose index is built and whose
\* control points and axes lie in the box.
update ==
  /\ Constructed
  /\ Len(coef) > 0
  /\ Len(coef) = Len(global_coef)
  /\ InBox(coef)
  /\ AxesInBox
  /\ \E u \in {updateCoef} :
       /\ ref_axis' = u.axes
       /\ IF u.err = "ok"
            THEN \E g \in {updateSurfaceCoef(u.coef)} :
                   /\ coef' = u.coef
                   /\ surf_coef' = g.coef
                   /\ updated' = g.updated
            ELSE UNCHANGED <<coef, surfVars>>
       /\ last' = [op |-> "update", result |-> u.err, ans |-> ""]
  /\ UNCHANGED <<geomVars, tu, tv, con, indexVars, conFile, dvVars, ref_axis_con, kwargs,
                 J1, perturbed>>

\* ----------------------------------------------------------- calcCtlDeriv
\* Lines 1756-1783: the number of columns of J1, one for each value of each
\* design variable (nVal is 1 for a global variable with an integer value).
RECURSIVE NdvLocal(_)
NdvLocal(i) ==
  IF i > Len(DV_listLocal) THEN 0
  ELSE Len(DV_listLocal[i].coef_list) + NdvLocal(i + 1)

Ndv == Len(DV_listGlobal) + NdvLocal(1)

\* A column of zeros of J1, as one vector for each control point.
ZeroColumn == ListOf([ii \in 1..Len(coef) |-> <<0, 0, 0>>], Len(coef))

\* imag(coef)/h of the complex step on one design variable: the change of
\* each coefficient for a unit change of the value.
derivative(stepped, base) ==
  ListOf([ii \in 1..Len(base) |-> VSub(stepped[ii], base[ii])], Len(base))

\* Lines 1789-1806: the loop over the global design variables from place idv
\* on; st holds the axes, the matrix, the places whose value carries the step
\* (pert), the places each run of _updateCoef saw stepped (seen) and the
\* exception raised.  Each pass adds the step to one value (lines 1793, 1801),
\* runs _updateCoef, fills column idv and takes the step off again (lines
\* 1797, 1805); an exception of _updateCoef leaves the loop before that.
RECURSIVE derivLoop(_, _)
derivLoop(st, idv) ==
  IF st.err # "ok" \/ idv > Len(DV_listGlobal) THEN st
  ELSE CHOOSE out \in
         {derivLoop(
            IF u.err # "ok"
              THEN [st EXCEPT !.axes = u.axes, !.err = u.err,
                              !.pert = @ \cup {idv},
                              !.seen = Append(@, st.pert \cup {idv})]
              ELSE [st EXCEPT !.axes = u.axes,
                              !.cols[idv] = derivative(stepped.coef, u.coef),
                              !.pert = (@ \cup {idv}) \ {idv},
                              !.seen = Append(@, st.pert \cup {idv})],
            idv + 1) :
            u \in {updateCoefWith(DV_listGlobal, st.axes)},
            stepped \in {updateCoefWith(
                           [k \in 1..Len(DV_listGlobal) |->
                              IF k \in st.pert \cup {idv}
                                THEN [DV_listGlobal[k] EXCEPT !.value = @ + 1]
                                ELSE DV_listGlobal[k]],
                           st.axes)}} : TRUE

\* calcCtlDeriv (lines 1748-1866) of an object whose index is built and
\* whose control points and axes lie in the box.  numpy gives no truth value
\* to a matrix of more than one element: the test of line 1756 raises on a
\* J1 that was built before.
calcCtlDeriv ==
  /\ Constructed
  /\ Len(coef) > 0
  /\ Len(coef) = Len(global_coef)
  /\ InBox(coef)
  /\ AxesInBox
  /\ IF J1 # NoMatrix /\ J1.nrow * J1.ncol > 1
       THEN /\ last' = [op |-> "calcCtlDeriv", result |-> "ValueError", ans |-> "",
                        seen |-> << >>]
            /\ UNCHANGED <<ref_axis, J1, perturbed>>
       ELSE \E d \in {derivLoop([axes |-> ref_axis,
                                 cols |-> ListOf([c \in 1..Ndv |-> ZeroColumn], Ndv),
                                 pert |-> perturbed, seen |-> << >>,
                                 err |-> "ok"], 1)} :
              /\ ref_axis' = d.axes
              /\ J1' = [nrow |-> 3 * Len(coef), ncol |-> Ndv, cols |-> d.cols]
              /\ perturbed' = d.pert
              /\ last' = [op |-> "calcCtlDeriv", result |-> d.err, ans |-> "",
                          seen |-> d.seen]
  /\ UNCHANGED <<geomVars, tu, tv, con, indexVars, conFile, dvVars, ref_axis_con, coef,
                 surfVars, kwargs>>

\* ------------------------------------------------ the strip of two patches
\* Two patches of 2 x 2 control points in the plane z = 0, patch 1 continuing
\* patch 0 along v: the control point (i, j) of patch p lies at
\* <<2 i, 2 (p + j), 0>>, and edge 1 of patch 0 is edge 0 of patch 1.
StripShape == <<2, 2>>

StripPoint(p, c) == <<2 * c[1], 2 * (p + c[2]), 0>>

InitStrip ==
  /\ nSurf = 2
  /\ shape = [p \in 0..1 |-> StripShape]
  /\ coin = [k \in {<<0, 1, 1, 0>>} |-> 1]
  /\ UniformKnotsOf(shape)
  /\ con = None
  /\ global_coef = << >>
  /\ globalCtlIndex = [p \in 0..1 |-> [c \in Cells(StripShape) |-> Unset]]
  /\ Ncoef = Unset
  /\ coef_shapes = << >>
  /\ slices = << >>
  /\ conFile = None
  /\ DV_listGlobal = << >>
  /\ DV_namesGlobal = << >>
  /\ DV_listLocal = << >>
  /\ DV_namesLocal = << >>
  /\ ref_axis = << >>
  /\ ref_axis_con = << >>
  /\ coef = << >>
  /\ surf_coef = [p \in 0..1 |-> [c \in Cells(StripShape) |-> StripPoint(p, c)]]
  /\ updated = [p \in 0..1 |-> [c \in Cells(StripShape) |-> 0]]
  /\ kwargs = NoKwargs
  /\ J1 = NoMatrix
  /\ perturbed = {}
  /\ last = [op |-> "init", result |-> "ok", ans |-> ""]

\* The lengths the five arrays of a lifting surface may have.
LiftLens == {3, 4}

\* A constructor call of init_type 'lifting_surface' about to run.
InitLifting ==
  /\ J1 = NoMatrix
  /\ perturbed = {}
  /\ kwargs \in [xsections : LiftLens, scale : LiftLens, offset : LiftLens,
                 Xsec : LiftLens, rot : LiftLens,
                 breaks : {"absent", "empty", "one"}]
  /\ nSurf = 0
  /\ shape = << >>
  /\ coin = << >>
  /\ tu = << >>
  /\ tv = << >>
  /\ con = None
  /\ global_coef = << >>
  /\ globalCtlIndex = << >>
  /\ Ncoef = Unset
  /\ coef_shapes = << >>
  /\ slices = << >>
  /\ conFile = None
  /\ DV_listGlobal = << >>
  /\ DV_namesGlobal = << >>
  /\ DV_listLocal = << >>
  /\ DV_namesLocal = << >>
  /\ ref_axis = << >>
  /\ ref_axis_con = << >>
  /\ coef = << >>
  /\ surf_coef = << >>
  /\ updated = << >>
  /\ last = [op |-> "new", result |-> "", ans |-> ""]

\* Up to MaxSurfSmall patches of 3 x 3 control points and up to MaxJoin
\* coincident edge pairs in either direction.
InitFile ==
  /\ nSurf \in 1..MaxSurfSmall
  /\ shape = [p \in 0..(nSurf - 1) |-> <<3, 3>>]
  /\ coin \in Coins(nSurf, shape, MaxJoin, {1, -1})
  /\ UniformKnotsOf(shape)
  /\ InitObject

\* The strip after calcEdgeConnectivity, three addRefAxis calls on patch 0, up
\* to MaxCon addRefAxisCon calls and the registration of the design variables
\* "sweep", "chord" and of a local variable on patch 1: axis 0 along the edge
\* of patch 0, axis 1 from its end along the edge of patch 1, axis 2 of three
\* anchors beside axis 1.
ChainX ==
  <<<<<<0, 0, 0>>, <<0, 2, 0>>>>,
    <<<<0, 2, 0>>, <<0, 4, 0>>>>,
    <<<<2, 2, 0>>, <<2, 3, 0>>, <<2, 4, 0>>>>>>

\* The addRefAxisCon calls a caller may make on the three axes.
ConCalls ==
  {c \in (0..2) \X (0..2) \X ConTypes : c[1] # c[2]}

\* The lists of at most n members of S.
RECURSIVE SeqsUpTo(_, _)
SeqsUpTo(S, n) ==
  IF n = 0 THEN {<< >>}
  ELSE LET P == SeqsUpTo(S, n - 1)
       IN  P \cup {Append(q, x) : q \in P, x \in S}

\* The axes and connections after the calls from place k on.
RECURSIVE connectAll(_, _, _)
connectAll(st, calls, k) ==
  IF k > Len(calls) THEN st
  ELSE CHOOSE out \in
         {connectAll(nxt, calls, k + 1) :
            nxt \in {connect(st.axes, st.cons, calls[k][1], calls[k][2], calls[k][3])}} : TRUE

InitChain ==
  /\ nSurf = 2
  /\ shape = [p \in 0..1 |-> StripShape]
  /\ coin = [k \in {<<0, 1, 1, 0>>} |-> 1]
  /\ UniformKnotsOf(shape)
  /\ surf_coef = [p \in 0..1 |-> [c \in Cells(StripShape) |-> StripPoint(p, c)]]
  /\ updated = [p \in 0..1 |-> [c \in Cells(StripShape) |-> 0]]
  /\ \E s \in {setEdgeConnectivityFrom(conOf(drivingGroups.edges, Len(e_con) * 2),
                 [p \in 0..1 |-> [c \in Cells(StripShape) |-> Unset]])} :
       /\ con = s.con
       /\ global_coef = s.global_coef
       /\ globalCtlIndex = s.gci
       /\ Ncoef = s.counter
       /\ coef_shapes = s.coef_shapes
       /\ slices = s.slices
  /\ coef = [ii \in 1..Len(global_coef) |->
               surf_coef[global_coef[ii][1][1]][<<global_coef[ii][1][2], global_coef[ii][1][3]>>]]
  /\ conFile = None
  /\ \E axes \in {ListOf([r \in 1..3 |->
                             newRefAxis(<<0>>, ChainX[r],
                                        ListOf([k \in 1..Len(ChainX[r]) |-> <<0, 0, 0>>],
                                               Len(ChainX[r])))], 3)} :
       \E calls \in SeqsUpTo(ConCalls, MaxCon) :
         \E st \in {connectAll([axes |-> axes, cons |-> << >>, result |-> "ok"], calls, 1)} :
           /\ ref_axis = st.axes
           /\ ref_axis_con = st.cons
  /\ DV_listGlobal = <<[name |-> "sweep", value |-> 0], [name |-> "chord", value |-> 0]>>
  /\ DV_namesGlobal = SetItem(SetItem(<< >>, "sweep", 0), "chord", 1)
  /\ DV_listLocal = <<geoDVLocal("bump", 1, masterCoefs(1, 0))>>
  /\ DV_namesLocal = SetItem(<< >>, "bump", 0)
  /\ kwargs = NoKwargs
  /\ J1 = NoMatrix
  /\ perturbed = {}
  /\ last = [op |-> "init", result |-> "ok", ans |-> ""]

\* The strip after calcEdgeConnectivity and two addRefAxis calls on patch 0:
\* an axis of two anchors whose second anchor is turned, and an axis of three
\* anchors; no connection and no design variable yet.
InitPair ==
  /\ nSurf = 2
  /\ shape = [p \in 0..1 |-> StripShape]
  /\ coin = [k \in {<<0, 1, 1, 0>>} |-> 1]
  /\ UniformKnotsOf(shape)
  /\ surf_coef = [p \in 0..1 |-> [c \in Cells(StripShape) |-> StripPoint(p, c)]]
  /\ updated = [p \in 0..1 |-> [c \in Cells(StripShape) |-> 0]]
  /\ \E s \in {setEdgeConnectivityFrom(conOf(drivingGroups.edges, Len(e_con) * 2),
                 [p \in 0..1 |-> [c \in Cells(StripShape) |-> Unset]])} :
       /\ con = s.con
       /\ global_coef = s.global_coef
       /\ globalCtlIndex = s.gci
       /\ Ncoef = s.counter
       /\ coef_shapes = s.coef_shapes
       /\ slices = s.slices
  /\ coef = [ii \in 1..Len(global_coef) |->
               surf_coef[global_coef[ii][1][1]][<<global_coef[ii][1][2], global_coef[ii][1][3]>>]]
  /\ conFile = None
  /\ ref_axis = <<newRefAxis(<<0>>, ChainX[1], <<<<0, 0, 0>>, <<1, 0, 1>>>>),
                  newRefAxis(<<0>>, ChainX[3], <<<<0, 0, 0>>, <<0, 0, 0>>, <<0, 0, 0>>>>)>>
  /\ ref_axis_con = << >>
  /\ DV_listGlobal = << >>
  /\ DV_namesGlobal = << >>
  /\ DV_listLocal = << >>
  /\ DV_namesLocal = << >>
  /\ kwargs = NoKwargs
  /\ J1 = NoMatrix
  /\ perturbed = {}
  /\ last = [op |-> "init", result |-> "ok", ans |-> ""]

Next ==
  \/ CalcEdgeConnectivity
  \/ WriteEdgeConnectivity
  \/ EditConFile
  \/ ReadEdgeConnectivity
  \/ PropagateKnotVectors
  \/ AddGeoDVGlobal
  \/ AddGeoDVLocal

NextConnectivity == CalcEdgeConnectivity

NextKnots == CalcEdgeConnectivity \/ PropagateKnotVectors

Spec == InitScenario /\ [][Next]_vars

SpecTopology == InitTopology /\ [][NextConnectivity]_vars

SpecIndex == InitIndex /\ [][NextConnectivity]_vars

SpecKnots == InitKnots /\ [][NextKnots]_vars

\* Registration of patches and axes: the lifting-surface constructor, the
\* index of the strip, and addRefAxis.
NextShapes == init_lifting_surface \/ CalcEdgeConnectivity \/ AddRefAxis

SpecShapes == (InitLifting \/ InitStrip) /\ [][NextShapes]_vars

\* The reference axes: their registration and connection on the strip, and
\* the update that follows.
NextAxis == CalcEdgeConnectivity \/ AddRefAxis \/ AddRefAxisCon \/ update

SpecAxis == InitStrip /\ [][NextAxis]_vars

\* The connectivity table written, damaged and read back.
NextFile ==
  \/ CalcEdgeConnectivity
  \/ WriteEdgeConnectivity
  \/ DeleteConRow
  \/ ReadEdgeConnectivity

SpecFile == InitFile /\ [][NextFile]_vars

\* The update of the control points from connected axes and design variables.
NextUpdate == SetGlobalValue \/ SetLocalValue \/ update

SpecUpdate == InitChain /\ [][NextUpdate]_vars

\* Two attached axes, then every call that follows the attachment: the
\* connections, the registration of a global and of a local design variable,
\* the assignment of a value, update and calcCtlDeriv.
NextLinks ==
  \/ AddRefAxisCon
  \/ addGeoDVGlobal("sweep", 0)
  \/ addGeoDVLocal("bump", 1)
  \/ SetGlobalValue
  \/ update
  \/ calcCtlDeriv

SpecLinks == InitPair /\ [][NextLinks]_vars

\* Two attached axes and design variables on the points they drive: the
\* connections, a global and a local design variable on patch 0, their
\* values, and update.
NextOrder ==
  \/ AddRefAxisCon
  \/ addGeoDVGlobal("sweep", 0)
  \/ addGeoDVLocal("bump", 0)
  \/ SetGlobalValue
  \/ SetLocalValue
  \/ update

SpecOrder == InitPair /\ [][NextOrder]_vars

\* The local design variables of the strip: registered on a whole patch or
\* through a bounding box, given values, and applied by update.
NextBox == AddGeoDVLocal \/ AddGeoDVLocalBox \/ SetLocalValue \/ update

SpecBox == InitPair /\ [][NextBox]_vars

\* ------------------------------------------------------------------ claims
\* The records of c that reference edge e of patch f.
RefsTo(c, f, e) ==
  {k \in 1..Len(c) : \/ (c[k].f1 = f /\ c[k].e1 = e)
                     \/ (c[k].type = 1 /\ c[k].f2 = f /\ c[k].e2 = e)}

CalcReturned == last.op = "calc" /\ last.result # "quit"

\* The number of coincident pairs edge e of patch f is in.
EdgeUses(f, e) ==
  Cardinality({k \in DOMAIN coin : \/ (k[1] = f /\ k[2] = e)
                                   \/ (k[3] = f /\ k[4] = e)})

\* No edge is coincident with more than one other edge.
Manifold == \A f \in Patches : \A e \in Edges : EdgeUses(f, e) <= 1

\* C1 as claimed: after calcEdgeConnectivity every (patch, edge) pair is
\* referenced by exactly one record of the connectivity list, for every
\* outcome of the edge-coincidence tests.
C1_Coverage ==
  CalcReturned =>
    \A f \in Patches : \A e \in Edges : Cardinality(RefsTo(con, f, e)) = 1

\* What the code does ensure: every pair is referenced by some record.
C1_AtLeastOne ==
  CalcReturned =>
    \A f \in Patches : \A e \in Edges : RefsTo(con, f, e) # {}

\* C5 as claimed: after calcEdgeConnectivity the records holding the two opposite edges
\* of a patch (0 and 1, 2 and 3) carry the same driving group.
C5_OppositeEdgesShareGroup ==
  CalcReturned =>
    \A f \in Patches : \A e \in {0, 2} :
      \A a \in RefsTo(con, f, e) : \A b \in RefsTo(con, f, e + 1) :
        con[a].dg = con[b].dg

\* C6: the driving-group assignment ends and leaves no record without a
\* driving group.
C6_AllAssigned ==
  /\ last.result # "hang"
  /\ CalcReturned => \A k \in 1..Len(con) : con[k].dg >= 0

\* The last call rebuilt the global index and returned.
IndexBuilt == last.op \in {"calc", "read"} /\ last.result = "ok"

\* The places <<k, m>> of global_coef that hold control point c of patch p.
PlacesOf(p, c) ==
  {km \in UNION {{<<k, m>> : m \in 1..Len(global_coef[k])} :
                   k \in 1..Len(global_coef)} :
     global_coef[km[1]][km[2]] = <<p, c[1], c[2]>>}

\* C2: after _setEdgeConnectivity every control point of every patch is in
\* exactly one entry of global_coef, its globalCtlIndex is the index of that
\* entry, and Ncoef is the number of entries.
C2_AliasComplete ==
  IndexBuilt =>
    /\ \A p \in Patches : \A c \in Cells(shape[p]) :
         /\ Cardinality(PlacesOf(p, c)) = 1
         /\ \A km \in PlacesOf(p, c) : globalCtlIndex[p][c] = km[1] - 1
    /\ Ncoef = Len(global_coef)

\* C3 as claimed: after global indexing, along every Joined record, every
\* control point of the second edge, the end corners included, has the global
\* index of the control point at the corresponding position of the first edge.
C3_SlaveEdgeAliased ==
  IndexBuilt =>
    \A k \in 1..Len(con) :
      con[k].type = 1 =>
        \A t \in 0..(EdgeLen(shape[con[k].f2], con[k].e2) - 1) :
          globalCtlIndex[con[k].f2][EdgeCell(shape[con[k].f2], con[k].e2, t, 1)]
            = globalCtlIndex[con[k].f1][EdgeCell(shape[con[k].f1], con[k].e1, t,
                                                 con[k].dir)]

\* The knot vector along edge e of patch f.
KnotsOf(f, e) == IF e \in {0, 1} THEN tu[f] ELSE tv[f]

SymmetricKnots(kv) ==
  \A q \in 1..Len(kv) : kv[q] + kv[Len(kv) + 1 - q] = KnotOne

\* The edges <<f, e>> of the records of driving group g.
GroupEdges(g) ==
  {<<con[k].f1, con[k].e1>> : k \in {m \in 1..Len(con) : con[m].dg = g}}
    \cup {<<con[k].f2, con[k].e2>> :
            k \in {m \in 1..Len(con) : con[m].dg = g /\ con[m].type = 1}}

Groups == {con[k].dg : k \in 1..Len(con)}

Reversed(g) == \E k \in 1..Len(con) : con[k].dg = g /\ con[k].dir = -1

Propagated == last.op = "propagate" /\ last.result = "ok"

\* C7 as claimed: after propagateKnotVectors, in every driving group that
\* holds a record of direction -1, the knot vector of the group's edges is
\* symmetric, knot[k] + knot[n-1-k] = 1 for every k, for even and for odd
\* lengths, the middle knot of an odd length included.
C7_SymmetricKnots ==
  Propagated =>
    \A g \in Groups :
      Reversed(g) => \A fe \in GroupEdges(g) : SymmetricKnots(KnotsOf(fe[1], fe[2]))

\* C8 as claimed: after propagateKnotVectors all the edges of a driving group
\* carry one and the same knot vector, in whichever direction of their patch
\* they run.
C8_GroupKnotsIdentical ==
  Propagated =>
    \A g \in Groups : \A a \in GroupEdges(g) : \A b \in GroupEdges(g) :
      KnotsOf(a[1], a[2]) = KnotsOf(b[1], b[2])

\* Every knot is a value the model's integers hold exactly.
KnotsExact ==
  \A p \in Patches :
    /\ \A q \in 1..Len(tu[p]) : tu[p][q] \in 0..KnotOne
    /\ \A q \in 1..Len(tv[p]) : tv[p][q] \in 0..KnotOne

\* The control points of the patches that are not the first (master) member
\* of their global_coef entry.
AliasedCells ==
  {pc \in UNION {{<<p, c>> : c \in Cells(shape[p])} : p \in Patches} :
     \/ globalCtlIndex[pc[1]][pc[2]] \notin 0..(Len(global_coef) - 1)
     \/ global_coef[globalCtlIndex[pc[1]][pc[2]] + 1][1]
          # <<pc[1], pc[2][1], pc[2][2]>>}

\* C4: two 6 x 4 patches whose only coincident edges are edge 1 of patch 0
\* and edge 0 of patch 1: calcEdgeConnectivity yields one Joined and six Free
\* records, Ncoef = 42, and the aliased control points are the six of edge 0
\* of patch 1 and no others.
C4_TwoPatchScenario ==
  (IsScenario /\ last.op = "calc" /\ last.result # "quit") =>
    /\ last.result = "ok"
    /\ Cardinality({k \in 1..Len(con) : con[k].type = 1}) = 1
    /\ Cardinality({k \in 1..Len(con) : con[k].type = 0}) = 6
    /\ \E k \in 1..Len(con) :
         /\ con[k].type = 1
         /\ <<con[k].f1, con[k].e1, con[k].f2, con[k].e2>> = <<0, 1, 1, 0>>
    /\ Ncoef = 6 * 4 + 6 * 4 - 6
    /\ AliasedCells = {<<1, <<i, 0>>>> : i \in 0..5}

C4_Witness ==
  /\ IsScenario
  /\ last.op = "calc"
  /\ last.result = "ok"
  /\ Len(con) = 7
  /\ coin[<<0, 1, 1, 0>>] = -1

C2_Witness ==
  /\ IndexBuilt
  /\ Manifold
  /\ \E k \in 1..Len(global_coef) :
       {global_coef[k][m][1] : m \in 1..Len(global_coef[k])} = {0, 1, 2}

C6_Witness ==
  /\ CalcReturned
  /\ Manifold
  /\ Cardinality({k \in 1..Len(con) : con[k].type = 1}) >= 2
  /\ \A k \in 1..Len(con) : con[k].type = 1 => con[k].dg = 0
  /\ \A k \in 1..Len(con) : con[k].dg >= 0

\* C9 as claimed: when connectivity exists, a call of calcEdgeConnectivity or
\* readEdgeConnectivity answered with anything but the confirmation "1"
\* leaves the connectivity list and the global index state as they were.
C9_OverwriteOnlyOnConfirm ==
  [][(con # None /\ last'.op \in {"calc", "read"} /\ last'.ans # "1")
       => UNCHANGED <<con, global_coef, globalCtlIndex, Ncoef>>]_vars

\* C10 as claimed: a registration under a name that is already registered
\* leaves the design-variable list and the name map unchanged (the calls have
\* no argument to opt in to an overwrite).
C10_DuplicateNameRefused ==
  [][/\ (\/ DV_listGlobal' # DV_listGlobal
         \/ DV_namesGlobal' # DV_namesGlobal)
          => Last(DV_listGlobal').name \notin DOMAIN DV_namesGlobal
     /\ (\/ DV_listLocal' # DV_listLocal
         \/ DV_namesLocal' # DV_namesLocal)
          => Last(DV_listLocal').name \notin DOMAIN DV_namesLocal]_vars

\* C11: a mismatch of shapes at registration is fatal and is detected before
\* any state changes: addRefAxis with anchors and rotations of different
\* lengths fails and leaves the list of reference axes as it was, and the
\* lifting-surface constructor fails without having created a surface
\* whenever xsections, scale, offset, Xsec and rot are not all equally long.
C11_ShapeMismatchFatal ==
  [][/\ (last'.op = "addRefAxis" /\ last'.nX # last'.nrot)
          => (last'.result = "exit" /\ ref_axis' = ref_axis)
     /\ (/\ last'.op = "lifting"
         /\ ~(/\ kwargs.xsections = kwargs.scale
              /\ kwargs.scale = kwargs.offset
              /\ kwargs.offset = kwargs.Xsec
              /\ kwargs.Xsec = kwargs.rot))
          => (last'.result # "ok" /\ nSurf' = 0)]_vars

\* C12: addRefAxisCon(parent, child, 'full') on a child that has other than
\* two anchors fails in the call itself, and no connection is appended to
\* ref_axis_con.
C12_FullNeedsTwoAnchors ==
  [][(/\ last'.op = "addRefAxisCon"
      /\ last'.con_type = "full"
      /\ ref_axis[last'.axis2 + 1].N # 2)
       => (last'.result = "AssertionError" /\ ref_axis_con' = ref_axis_con)]_vars

C12_Witness ==
  /\ last.op = "addRefAxisCon"
  /\ last.con_type = "full"
  /\ ref_axis[last.axis2 + 1].N = 3
  /\ last.result = "AssertionError"
  /\ \E k \in 1..Len(ref_axis_con) : ref_axis_con[k][3] = "full"

\* The pairs of edges that meet at the corners Node 0, 1, 2 and 3.
CornerEdges == {<<0, 2>>, <<0, 3>>, <<1, 2>>, <<1, 3>>}

\* Whether patch p has a corner at which the records of both edges name
\* another patch as their master.
BothSlave(c, p, ce) ==
  /\ findConIndex(c, p, ce[1])[1] # -1
  /\ findConIndex(c, p, ce[2])[1] # -1
  /\ ~findConIndex(c, p, ce[1])[2]
  /\ ~findConIndex(c, p, ce[2])[2]

\* C13: a corner at which neither of the two edge records marks the patch as
\* master is fatal in each of the four corners: the indexing aborts instead
\* of assigning an index, so no call over such a connectivity returns.
C13_BothSlaveCornerFatal ==
  (/\ last.op = "calc"
   /\ con # None
   /\ \E p \in Patches : \E ce \in CornerEdges : BothSlave(con, p, ce))
    => last.result # "ok"

\* The place of cell c of patch p in the order of the loops of
\* _setEdgeConnectivity: patch by patch, j fastest.
LoopPlace(p, c) == <<p, c[1] * shape[p][2] + c[2]>>

Before(a, b) == a[1] < b[1] \/ (a[1] = b[1] /\ a[2] < b[2])

\* The place at which edge e of patch p is looked up first: its first cell.
FirstLookup(p, e) ==
  LET places == {LoopPlace(p, EdgeCell(shape[p], e, index, 1)) :
                   index \in 0..(EdgeLen(shape[p], e) - 1)}
  IN  CHOOSE a \in places : \A b \in places : a = b \/ Before(a, b)

\* A table was read in which some (patch, edge) is in no row.
ReadIncomplete ==
  /\ last.op = "read"
  /\ last.result \notin {"quit", "IOError"}
  /\ MissingEdges(con) # {}

\* C14: when some (patch, edge) is in no record of the connectivity list, as
\* after reading an incomplete file, the indexing never completes: it is
\* over before it returns, at the first lookup of that edge at the latest, so
\* that no control point from that lookup on has been given an index.
C14_MissingEdgeFatal ==
  ReadIncomplete =>
    /\ last.result # "ok"
    /\ \A pe \in MissingEdges(con) :
         \A ii \in 1..Len(global_coef) : \A m \in 1..Len(global_coef[ii]) :
           Before(LoopPlace(global_coef[ii][m][1],
                            <<global_coef[ii][m][2], global_coef[ii][m][3]>>),
                  FirstLookup(pe[1], pe[2]))

C14_Witness ==
  /\ ReadIncomplete
  /\ Manifold
  /\ last.result = "exit"
  /\ nSurf = 2
  /\ \E ii \in 1..Len(global_coef) : global_coef[ii][1][1] = 1

\* C15: after every update each registered axis holds curves recomputed from
\* its anchors: the coefficients of xs are base_point + x, those of the
\* rotation curves are rot and those of the scale curve are scale, whether
\* or not the axis takes part in a connection.
C15_EveryAxisRecomputed ==
  (last.op = "update" /\ last.result = "ok")
    => \A r \in 1..Len(ref_axis) :
         /\ \A k \in 1..ref_axis[r].N :
              ref_axis[r].xs[k] = VAdd(ref_axis[r].base_point, ref_axis[r].x[k])
         /\ ref_axis[r].rots = ref_axis[r].rot
         /\ ref_axis[r].scales = ref_axis[r].scale

\* C16: an update that follows an update directly, with no design variable
\* value changed in between, leaves the global coefficient array as the
\* first update left it.
C16_UpdateIdempotent ==
  [][(/\ last.op = "update" /\ last.result = "ok"
      /\ last'.op = "update" /\ last'.result = "ok")
       => coef' = coef]_vars

\* Every design variable holds the value it was registered with.
Baseline ==
  /\ \A i \in 1..Len(DV_listGlobal) : DV_listGlobal[i].value = 0
  /\ \A i \in 1..Len(DV_listLocal) :
       \A k \in 1..Len(DV_listLocal[i].value) : DV_listLocal[i].value[k] = 0

\* C17: an update that directly follows a successful addRefAxis, with every
\* design variable at its baseline, leaves every control point attached to
\* the new axis at the coordinates it had when it was projected.
C17_ZeroPerturbationRoundTrip ==
  [][(/\ last.op = "addRefAxis" /\ last.result = "ok"
      /\ last'.op = "update" /\ last'.result = "ok"
      /\ Baseline)
       => \A k \in 1..Len(Last(ref_axis).coef_list) :
            coef'[Last(ref_axis).coef_list[k] + 1] = coef[Last(ref_axis).coef_list[k] + 1]]_vars

\* One axis whose second anchor is turned was attached and the update has
\* run: the attached control points lie where the patches were built.
C17_Witness ==
  /\ last.op = "update" /\ last.result = "ok"
  /\ Len(ref_axis) = 1
  /\ ref_axis[1].rot[2] = <<1, 0, 1>>
  /\ \E k \in 1..Len(ref_axis[1].links_x) :
       ref_axis[1].links_s[k] = SOne /\ ref_axis[1].links_x[k] # <<0, 0, 0>>
  /\ \A k \in 1..Len(ref_axis[1].coef_list) :
       coef[ref_axis[1].coef_list[k] + 1]
         = StripPoint(global_coef[ref_axis[1].coef_list[k] + 1][1][1],
                      <<global_coef[ref_axis[1].coef_list[k] + 1][1][2],
                        global_coef[ref_axis[1].coef_list[k] + 1][1][3]>>)

\* C18: no step of update, calcCtlDeriv, addRefAxisCon, addGeoDVGlobal,
\* addGeoDVLocal or of the assignment of a design variable value changes
\* links_s, links_x or coef_list of any reference axis.
C18_LinksFrozen ==
  [][\A r \in 1..Len(ref_axis) :
       /\ ref_axis'[r].links_s = ref_axis[r].links_s
       /\ ref_axis'[r].links_x = ref_axis[r].links_x
       /\ ref_axis'[r].coef_list = ref_axis[r].coef_list]_vars

\* After a connection, both registrations and calcCtlDeriv, an update has
\* moved the anchors of an axis that carries links.
C18_Witness ==
  /\ last.op = "update" /\ last.result = "ok"
  /\ J1 # NoMatrix
  /\ Len(ref_axis_con) > 0
  /\ Len(DV_listGlobal) > 0 /\ Len(DV_listLocal) > 0
  /\ \E r \in 1..Len(ref_axis) :
       /\ ref_axis[r].xs # [k \in 1..ref_axis[r].N |->
                              VAdd(ChainX[IF r = 1 THEN 1 ELSE 3][1], ref_axis[r].x0[k])]
       /\ Len(ref_axis[r].links_s) = 4
       /\ \E k \in 1..4 : ref_axis[r].links_x[k] # <<0, 0, 0>>

\* Whether the child of the connection c sits where its stored parameter and
\* offset put it on the curve of the parent.
Follows(c) ==
  LET parent == ref_axis[c[1] + 1]
      child == ref_axis[c[2] + 1]
  IN  /\ child.base_point = followParent(parent, child.base_point_s, child.base_point_D)
      /\ c[3] = "full"
           => child.end_point = followParent(parent, child.end_point_s, child.end_point_D)

\* The connections form chains: every axis is the child of at most one
\* connection and no axis follows itself.
Chained ==
  /\ \A j, k \in 1..Len(ref_axis_con) :
       ref_axis_con[j][2] = ref_axis_con[k][2] => j = k
  /\ \E rank \in [0..(Len(ref_axis) - 1) -> 0..(Len(ref_axis) - 1)] :
       \A k \in 1..Len(ref_axis_con) :
         rank[ref_axis_con[k][1]] < rank[ref_axis_con[k][2]]

\* C19: after every update the child of every registered connection has its
\* base anchor (for 'full' also its end anchor) at the stored parameter and
\* offset on the curve the parent has at the end of that update, also where
\* the parent is itself a child and whatever the order in which the
\* connections of a chain were registered.
C19_ChildFollowsParent ==
  (last.op = "update" /\ last.result = "ok" /\ Chained)
    => \A k \in 1..Len(ref_axis_con) : Follows(ref_axis_con[k])

\* C20: after every update, each control point listed in global_coef[ii]
\* holds the global coefficient coef[ii] and is marked updated, for every
\* index ii and every entry of its list.
C20_AliasesScattered ==
  (last.op = "update" /\ last.result = "ok")
    => \A ii \in 1..Len(coef) : \A m \in 1..Len(global_coef[ii]) :
         /\ surf_coef[global_coef[ii][m][1]][<<global_coef[ii][m][2], global_coef[ii][m][3]>>]
              = coef[ii]
         /\ updated[global_coef[ii][m][1]][<<global_coef[ii][m][2], global_coef[ii][m][3]>>] = 1

\* An update has moved a control point that two patches share, away from
\* where the patches were built.
C20_Witness ==
  /\ last.op = "update" /\ last.result = "ok"
  /\ \E ii \in 1..Len(coef) :
       /\ Len(global_coef[ii]) = 2
       /\ global_coef[ii][1][1] # global_coef[ii][2][1]
       /\ coef[ii] # StripPoint(global_coef[ii][1][1],
                                <<global_coef[ii][1][2], global_coef[ii][1][3]>>)
       /\ surf_coef[global_coef[ii][2][1]][<<global_coef[ii][2][2], global_coef[ii][2][3]>>]
            = coef[ii]

\* C21: calcCtlDeriv steps the global design variables one at a time and in
\* the order of registration: the k-th run of _updateCoef sees the step on
\* the k-th value and on no other, and when the call is over every value is
\* what it was before the call, with no step left on it.
C21_OneAtATimeAndRestored ==
  [][last'.op = "calcCtlDeriv" =>
       /\ \A k \in 1..Len(last'.seen) : last'.seen[k] = {k}
       /\ DV_listGlobal' = DV_listGlobal
       /\ perturbed' = perturbed]_vars

\* The column of J1 that belongs to component k of local design variable i:
\* the columns of the global design variables come first, then those of the
\* local ones in their order.
LocalColumn(i, k) ==
  Len(DV_listGlobal) + (NdvLocal(1) - NdvLocal(i)) + k

\* C22: the matrix calcCtlDeriv builds has three rows for each DOF and one
\* column for each component of each design variable, and the column of
\* every component of every local design variable holds, in the rows of the
\* DOF the component moves, the surface normal at that point.
C22_JacobianComplete ==
  last.op = "calcCtlDeriv" /\ last.result = "ok" =>
    /\ J1.nrow = 3 * Len(coef)
    /\ J1.ncol = Ndv
    /\ Len(J1.cols) = Ndv
    /\ \A i \in 1..Len(DV_listLocal) : \A k \in 1..Len(DV_listLocal[i].coef_list) :
         J1.cols[LocalColumn(i, k)][DV_listLocal[i].coef_list[k] + 1] = Normal

\* C23: calcCtlDeriv can be called again: a call that follows a call that
\* built the matrix, with nothing assigned in between, ends without an
\* exception and leaves the same matrix, and no call changes self.coef or
\* the control points of a patch.
C23_RepeatedCallSafe ==
  [][last'.op = "calcCtlDeriv" =>
       /\ coef' = coef
       /\ surf_coef' = surf_coef
       /\ (last.op = "calcCtlDeriv" /\ last.result = "ok" =>
             last'.result = "ok" /\ J1' = J1)]_vars

\* C30: a 'full' connection addRefAxisCon rejects, because the child has
\* not exactly two anchors, leaves the child as it was: its base_point_s,
\* its base_point_D and its con_type are those of before the call.
C30_RejectedLeavesChild ==
  [][last'.op = "addRefAxisCon" /\ last'.result = "AssertionError" =>
       LET before == ref_axis[last'.axis2 + 1]
           after == ref_axis'[last'.axis2 + 1]
       IN  /\ after.base_point_s = before.base_point_s
           /\ after.base_point_D = before.base_point_D
           /\ after.con_type = before.con_type]_vars

\* The DOFs some axis drives.
Attached == {ii \in 0..(Len(coef) - 1) :
               \E r \in 1..Len(ref_axis) : \E l \in 1..Len(ref_axis[r].coef_list) :
                 ref_axis[r].coef_list[l] = ii}

\* The sum of the values the local design variables from place i on give
\* DOF ii; the points of one local design variable are distinct.
RECURSIVE localMove(_, _)
localMove(ii, i) ==
  IF i > Len(DV_listLocal) THEN 0
  ELSE LET K == {k \in 1..Len(DV_listLocal[i].coef_list) : DV_listLocal[i].coef_list[k] = ii}
       IN  (IF K = {} THEN 0 ELSE DV_listLocal[i].value[CHOOSE k \in K : TRUE])
             + localMove(ii, i + 1)

CornersOf(p) ==
  LET Nctlu == shape[p][1]
      Nctlv == shape[p][2]
  IN  {[cell |-> <<0, 0>>, ea |-> 0, eb |-> 2, ia |-> 0, ib |-> 0],
       [cell |-> <<Nctlu - 1, 0>>, ea |-> 0, eb |-> 3, ia |-> Nctlu - 1, ib |-> 0],
       [cell |-> <<0, Nctlv - 1>>, ea |-> 1, eb |-> 2, ia |-> 0, ib |-> Nctlv - 1],
       [cell |-> <<Nctlu - 1, Nctlv - 1>>, ea |-> 1, eb |-> 3,
        ia |-> Nctlu - 1, ib |-> Nctlv - 1]}

\* C26: where exactly one of the two edge records of a corner cell names
\* the patch as slave, the corner carries the global index of the master
\* patch of that record (its face1), read on the record's edge1 in the
\* record's direction at the corner's own position along the slave edge.
C26_CornerAliasedThroughSlaveRecord ==
  IndexBuilt =>
    \A p \in Patches : \A n \in CornersOf(p) :
      LET r1 == findConIndex(con, p, n.ea)
          r2 == findConIndex(con, p, n.eb)
      IN  r1[1] # -1 /\ r2[1] # -1 /\ (r1[2] # r2[2]) =>
            LET rec == IF ~r1[2] THEN At(con, r1[1]) ELSE At(con, r2[1])
                index == IF ~r1[2] THEN n.ia ELSE n.ib
            IN  globalCtlIndex[p][n.cell]
                  = getGlobalIndexEdge(globalCtlIndex, rec.f1, rec.e1, index, rec.dir)

\* coef_sizes[p] (line 1139): the product of the free shape of patch p.
coef_sizes(p) == coef_shapes[p + 1][1] * coef_shapes[p + 1][2]

\* The master cells of patch p: the cells that are the first entry of the
\* global_coef list of their index.
MasterCells(p) ==
  {c \in Cells(shape[p]) :
     /\ globalCtlIndex[p][c] \in 0..(Len(global_coef) - 1)
     /\ global_coef[globalCtlIndex[p][c] + 1][1] = <<p, c[1], c[2]>>}

RECURSIVE SumSizes(_)
SumSizes(p) == IF p >= nSurf THEN 0 ELSE coef_sizes(p) + SumSizes(p + 1)

\* C28: for every patch the product of its free shape is the number of its
\* master cells and the length of its slice of global indices, and the
\* products of all patches add up to Ncoef.
C28_FreeShapeCountsMasters ==
  IndexBuilt =>
    /\ Len(coef_shapes) = nSurf /\ Len(slices) = nSurf
    /\ \A p \in Patches :
         /\ coef_sizes(p) = Cardinality(MasterCells(p))
         /\ coef_sizes(p) = slices[p + 1][2] - slices[p + 1][1]
    /\ SumSizes(0) = Ncoef

\* An index in which a patch has lost a row of control points to its
\* neighbour.
C28_Witness ==
  /\ IndexBuilt
  /\ \E p \in Patches : coef_sizes(p) < shape[p][1] * shape[p][2] /\ coef_sizes(p) > 0

\* The largest driving group of the records of c before place k; -1 where
\* there is none.
RECURSIVE MaxGroupBefore(_, _)
MaxGroupBefore(c, k) ==
  IF k <= 1 THEN -1
  ELSE LET m == MaxGroupBefore(c, k - 1)
       IN  IF c[k - 1].dg > m THEN c[k - 1].dg ELSE m

\* C29: in the list calcEdgeConnectivity leaves, the driving groups appear
\* for the first time in the order 0, 1, 2, ... without a gap, and the
\* buckets of propagateKnotVectors hold every record in the bucket of its
\* own group, with no bucket indexed that does not exist.
C29_GroupsAppearInOrder ==
  last.op = "calc" /\ last.result = "ok" /\ con # None =>
    /\ \A k \in 1..Len(con) :
         con[k].dg >= 0 /\ con[k].dg <= MaxGroupBefore(con, k) + 1
    /\ LET b == buckets([dg |-> << >>, dg_counter |-> -1, err |-> "ok"], con, 1)
       IN  /\ b.err = "ok"
           /\ \A g \in 1..Len(b.dg) : \A m \in 1..Len(b.dg[g]) : b.dg[g][m].dg = g - 1

\* C27: every DOF of the coef_list of a local design variable has its first
\* entry in global_coef on the patch of the variable, and its
\* local_coef_index is the position on that patch that carries the DOF,
\* whether the list came from the whole patch or from a bounding box.
C27_LocalPointsOnOwnSurface ==
  \A i \in 1..Len(DV_listLocal) :
    LET dv == DV_listLocal[i]
    IN  \A k \in 1..Len(dv.coef_list) :
          /\ global_coef[dv.coef_list[k] + 1][1][1] = dv.surface_id
          /\ dv.local_coef_index[k] \in Cells(shape[dv.surface_id])
          /\ globalCtlIndex[dv.surface_id][dv.local_coef_index[k]] = dv.coef_list[k]

\* The table writeEdgeConnectivity writes for the list c.
TableOf(c) == [k \in 1..Len(c) |-> write_info(c[k], k - 1)]

\* Whether the index of the object is the one _setEdgeConnectivity computes
\* for self.con on patches that never had an index.
IndexFresh ==
  LET f == setEdgeConnectivityFrom(con, [p \in Patches |-> [c \in Cells(shape[p]) |-> Unset]])
  IN  /\ f.err = "ok"
      /\ global_coef = f.global_coef
      /\ globalCtlIndex = f.gci
      /\ Ncoef = f.counter

\* C24: reading back the table that was written from self.con gives every
\* record the fields it had, joined and free records alike, and where the
\* index was that of the computed topology, the same global_coef, the same
\* globalCtlIndex of every patch and the same Ncoef.
C24_WriteReadRoundTrip ==
  [][last'.op = "read" /\ last'.result # "quit" /\ con # None /\ conFile # None
       /\ conFile = TableOf(con) =>
         /\ con' = con
         /\ (IndexFresh =>
               /\ last'.result = "ok"
               /\ global_coef' = global_coef
               /\ globalCtlIndex' = globalCtlIndex
               /\ Ncoef' = Ncoef)]_vars

\* A table of joined and free records that was read back into the index of
\* the computed topology.
C24_Witness ==
  /\ last.op = "read" /\ last.result = "ok"
  /\ conFile # None /\ con # None
  /\ conFile = TableOf(con)
  /\ IndexFresh
  /\ \E k \in 1..Len(con) : con[k].type = 1 /\ con[k].dir = -1
  /\ \E k \in 1..Len(con) : con[k].type = 0

====
